---- MODULE Spec2Model ----
(***************************************************************************)
(* A model of the STIG / CCI mapping engine of src-tauri/src/stig.rs:      *)
(* the control mapping aggregator (map_stig_to_nist_controls), the summary *)
(* calculator (create_mapping_result), the checklist merger                *)
(* (parse_and_merge_stig_checklists), the checklist parser                 *)
(* (parse_stig_checklist) and the checklist serializer (generate_ckl_xml). *)
(*                                                                         *)
(* The specifications share the variables:                                 *)
(*   Spec        the aggregator and the summary calculator                 *)
(*   SpecCodec   the checklist parser run on a document, the serializer    *)
(*               run on its result, the parser run on the serializer       *)
(*               output                                                    *)
(*   SpecMerge   the merger run on a list of paths                         *)
(*   SpecCatalog the catalog parser (parse_cci_list) run on a document     *)
(*   SpecParsers the two parsers, each run on its documents                *)
(*   SpecExport  the serializer run on a checklist structure of the        *)
(*               surrounding system, the parser run on its output          *)
(* Each keeps the variables of the components it does not run at their     *)
(* idle values.                                                            *)
(***************************************************************************)
EXTENDS Integers, Sequences, FiniteSets, TLC

VARIABLES
    pc,               \* position of the component under check
    cci_mappings,     \* create_mapping_result: the catalog records
    vulnerabilities,  \* create_mapping_result: checklist.vulnerabilities
    mapped_controls,  \* STIGMappingResult.mapped_controls
    summary,          \* STIGMappingResult.summary
    document,         \* the text of the checklist file handed to the parser
    parsed,           \* parse_stig_checklist(document); the checklist
                      \* that is handed to the serializer
    xml,              \* generate_ckl_xml of the parsed checklist
    reparsed,         \* parse_stig_checklist(xml)
    files,            \* the file system: path -> content
    file_paths,       \* parse_and_merge_stig_checklists: its argument
    index,            \* the position of its loop
    merged_checklist, \* its accumulator
    merge_result,     \* what it returns
    parse_calls,      \* the paths it has handed to parse_stig_checklist
    cci_document,     \* the text of the catalog file handed to parse_cci_list
    cci_list          \* what parse_cci_list returns

aggVars == <<cci_mappings, vulnerabilities, mapped_controls, summary>>

codecVars == <<document, parsed, xml, reparsed>>

mergeVars ==
    <<files, file_paths, index, merged_checklist, merge_result, parse_calls>>

catalogVars == <<cci_document, cci_list>>

vars == <<pc, aggVars, codecVars, mergeVars, catalogVars>>

\* Option<T>
None == <<"None">>

Some(x) == <<"Some", x>>

\* The values of the variables of a component that is not running.
AggIdle ==
    /\ cci_mappings = <<>>
    /\ vulnerabilities = <<>>
    /\ mapped_controls = <<>>
    /\ summary = <<>>

CodecIdle ==
    /\ document = <<>>
    /\ parsed = None
    /\ xml = <<>>
    /\ reparsed = None

MergeIdle ==
    /\ files = <<>>
    /\ file_paths = <<>>
    /\ index = 0
    /\ merged_checklist = None
    /\ merge_result = None
    /\ parse_calls = <<>>

CatalogIdle ==
    /\ cci_document = <<>>
    /\ cci_list = None

(***************************************************************************)
(* Bounds and input domains of the aggregator.                             *)
(***************************************************************************)
MaxVulns == 2

VulnNums == {"V-1", "V-2"}

\* "Medium" and "HIGH" exercise to_lowercase; "info" is a severity that is
\* none of high / medium / low.
Severities == {"high", "HIGH", "Medium", "low", "info"}

Statuses == {"Open", "NotAFinding", "NotApplicable", "Not_Reviewed"}

CCIs == {"CCI-000001", "CCI-000002"}

RefLists ==
    {<<>>, <<"CCI-000001">>, <<"CCI-000002">>,
     <<"CCI-000001", "CCI-000001">>, <<"CCI-000001", "CCI-000002">>,
     <<"CCI-000002", "CCI-000001">>}

\* The NIST control identifiers of the model, in ascending lexicographic
\* (byte) order: "AC-10" < "AC-2" < "SI-4".
ControlOrder == <<"AC-10", "AC-2", "SI-4">>

Controls == {ControlOrder[i] : i \in DOMAIN ControlOrder}

\* A finding as the aggregator reads it.  The other twelve fields of
\* STIGVulnerability are cloned with the finding and never read.
Vulns ==
    [vuln_num : VulnNums, severity : Severities, status : Statuses,
     cci_refs : RefLists]

\* The catalogs the aggregator is run with: a single record, two records
\* sharing a control, a record with several controls listed out of order,
\* an identifier that occurs in two records, and a catalog that lacks
\* CCI-000001.
Catalogs ==
    {<<[id |-> "CCI-000001", nist_controls |-> <<"AC-2">>]>>,
     <<[id |-> "CCI-000001", nist_controls |-> <<"AC-2">>],
       [id |-> "CCI-000002", nist_controls |-> <<"SI-4", "AC-2">>]>>,
     <<[id |-> "CCI-000001", nist_controls |-> <<"SI-4", "AC-10">>],
       [id |-> "CCI-000002", nist_controls |-> <<>>]>>,
     <<[id |-> "CCI-000001", nist_controls |-> <<"AC-2">>],
       [id |-> "CCI-000001", nist_controls |-> <<"AC-10">>]>>,
     <<[id |-> "CCI-000002", nist_controls |-> <<"AC-2", "AC-2">>]>>}

(***************************************************************************)
(* Library behaviour the aggregator relies on.                             *)
(***************************************************************************)
\* A faulty variant of MapInsert: the value of a key that is present stays.
MapInsert_KeepFirst(map, k, v) == map @@ (k :> v)

\* HashMap::insert: the value of key k is replaced, or the key is added.
MapInsert(map, k, v) == (k :> v) @@ map

EmptyMap == [x \in {} |-> <<>>]

\* Vec::contains
Contains(seq, x) == \E i \in DOMAIN seq : seq[i] = x

\* str::to_lowercase on the severities of the model.
ToLower(s) ==
    CASE s = "HIGH" -> "high"
      [] s = "Medium" -> "medium"
      [] OTHER -> s

\* String::cmp on control identifiers: lexicographic byte order.
StrRank(s) == CHOOSE i \in DOMAIN ControlOrder : ControlOrder[i] = s

StrLess(a, b) == StrRank(a) < StrRank(b)

(***************************************************************************)
(* map_stig_to_nist_controls                                               *)
(***************************************************************************)
\* The lookup from correlation identifier to NIST controls: one insert per
\* catalog record, in catalog order.
RECURSIVE BuildCciToNistMap(_, _)
BuildCciToNistMap(mappings, map) ==
    IF mappings = <<>> THEN map
    ELSE BuildCciToNistMap(Tail(mappings),
            MapInsert(map, Head(mappings).id, Head(mappings).nist_controls))

NewControl(nist_control) ==
    [nist_control |-> nist_control, ccis |-> <<>>, stigs |-> <<>>,
     compliance_status |-> "not-reviewed", risk_level |-> "low"]

\* A faulty variant of AddCci: the reference is pushed without looking for
\* it in the list.
AddCci_NoLookup(ccis, cci_ref) == Append(ccis, cci_ref)

\* "Add CCI if not already present"
AddCci(ccis, cci_ref) ==
    IF ~Contains(ccis, cci_ref) THEN Append(ccis, cci_ref) ELSE ccis

\* A faulty variant of AddStig: the finding is pushed without looking for
\* its number in the list.
AddStig_NoLookup(stigs, vuln) == Append(stigs, vuln)

\* "Add STIG if not already present"
AddStig(stigs, vuln) ==
    IF ~(\E i \in DOMAIN stigs : stigs[i].vuln_num = vuln.vuln_num)
    THEN Append(stigs, vuln) ELSE stigs

\* A faulty variant of UpdateCompliance: the guard of the NotApplicable arm
\* is missing, so a NotApplicable finding overrides an earlier verdict.
UpdateCompliance_NoGuard(compliance_status, status) ==
    CASE status = "Open" -> "non-compliant"
      [] status = "NotAFinding" /\ compliance_status # "non-compliant" ->
            "compliant"
      [] status = "NotApplicable" -> "not-applicable"
      [] OTHER -> compliance_status

\* "Update compliance status (prioritize worst status)"
UpdateCompliance(compliance_status, status) ==
    CASE status = "Open" -> "non-compliant"
      [] status = "NotAFinding" /\ compliance_status # "non-compliant" ->
            "compliant"
      [] status = "NotApplicable" /\ compliance_status = "not-reviewed" ->
            "not-applicable"
      [] OTHER -> compliance_status

\* A faulty variant of UpdateRisk: the guard of the medium arm is missing,
\* so a medium finding lowers a control that is already high.
UpdateRisk_NoGuard(risk_level, severity) ==
    CASE ToLower(severity) = "high" -> "high"
      [] ToLower(severity) = "medium" -> "medium"
      [] OTHER -> risk_level

\* "Update risk level (prioritize highest risk)"
UpdateRisk(risk_level, severity) ==
    CASE ToLower(severity) = "high" -> "high"
      [] ToLower(severity) = "medium" /\ risk_level # "high" -> "medium"
      [] OTHER -> risk_level

\* The body of the innermost loop: entry(..).or_insert_with(..) and the four
\* updates of the control.
ProcessControl(control_map, vuln, cci_ref, nist_control) ==
    LET control == IF nist_control \in DOMAIN control_map
                   THEN control_map[nist_control]
                   ELSE NewControl(nist_control)
    IN MapInsert(control_map, nist_control,
          [control EXCEPT
              !.ccis = AddCci(@, cci_ref),
              !.stigs = AddStig(@, vuln),
              !.compliance_status = UpdateCompliance(@, vuln.status),
              !.risk_level = UpdateRisk(@, vuln.severity)])

\* A faulty variant of ProcessNistControls: the loop stops after the first
\* control of the record.
ProcessNistControls_FirstOnly(control_map, vuln, cci_ref, nist_controls) ==
    IF nist_controls = <<>> THEN control_map
    ELSE ProcessControl(control_map, vuln, cci_ref, Head(nist_controls))

\* for nist_control in nist_controls
RECURSIVE ProcessNistControls(_, _, _, _)
ProcessNistControls(control_map, vuln, cci_ref, nist_controls) ==
    IF nist_controls = <<>> THEN control_map
    ELSE ProcessNistControls(
            ProcessControl(control_map, vuln, cci_ref, Head(nist_controls)),
            vuln, cci_ref, Tail(nist_controls))

\* for cci_ref in &vuln.cci_refs, with the lookup of the reference
RECURSIVE ProcessCciRefs(_, _, _, _)
ProcessCciRefs(control_map, vuln, cci_refs, cci_to_nist_map) ==
    IF cci_refs = <<>> THEN control_map
    ELSE ProcessCciRefs(
            IF Head(cci_refs) \in DOMAIN cci_to_nist_map
            THEN ProcessNistControls(control_map, vuln, Head(cci_refs),
                                     cci_to_nist_map[Head(cci_refs)])
            ELSE control_map,
            vuln, Tail(cci_refs), cci_to_nist_map)

\* for vuln in &checklist.vulnerabilities
RECURSIVE ProcessVulns(_, _, _)
ProcessVulns(control_map, vulns, cci_to_nist_map) ==
    IF vulns = <<>> THEN control_map
    ELSE ProcessVulns(
            ProcessCciRefs(control_map, Head(vulns), Head(vulns).cci_refs,
                           cci_to_nist_map),
            Tail(vulns), cci_to_nist_map)

\* A faulty variant of SortByControl: the comparison of sort_by is turned
\* round, so the controls come out in descending order.
RECURSIVE SortByControl_Descending(_)
SortByControl_Descending(control_map) ==
    IF DOMAIN control_map = {} THEN <<>>
    ELSE LET most == CHOOSE k \in DOMAIN control_map :
                        \A x \in DOMAIN control_map : x = k \/ StrLess(x, k)
         IN <<control_map[most]>> \o
            SortByControl_Descending(
                [x \in (DOMAIN control_map) \ {most} |-> control_map[x]])

\* into_values().collect() followed by sort_by on nist_control.  The keys of
\* the map are distinct, so the sorted vector does not depend on the order
\* in which the map hands out its values.
RECURSIVE SortByControl(_)
SortByControl(control_map) ==
    IF DOMAIN control_map = {} THEN <<>>
    ELSE LET least == CHOOSE k \in DOMAIN control_map :
                         \A x \in DOMAIN control_map : x = k \/ StrLess(k, x)
         IN <<control_map[least]>> \o
            SortByControl([x \in (DOMAIN control_map) \ {least} |->
                              control_map[x]])

map_stig_to_nist_controls(vulns, mappings) ==
    SortByControl(
        ProcessVulns(EmptyMap, vulns, BuildCciToNistMap(mappings, EmptyMap)))

(***************************************************************************)
(* create_mapping_result                                                   *)
(***************************************************************************)
\* A faulty variant of CountStatus: the verdict is looked for inside the
\* status (contains), so "non-compliant" also counts as "compliant".
CountStatus_Contains(controls, verdict) ==
    Cardinality({i \in DOMAIN controls :
                    \/ controls[i].compliance_status = verdict
                    \/ /\ verdict = "compliant"
                       /\ controls[i].compliance_status = "non-compliant"})

\* iter().filter(|c| c.compliance_status == verdict).count()
CountStatus(controls, verdict) ==
    Cardinality({i \in DOMAIN controls :
                    controls[i].compliance_status = verdict})

\* A faulty variant of CountRisk: the severity is compared as written.
CountRisk_CaseSensitive(vulns, severity) ==
    Cardinality({i \in DOMAIN vulns :
                    /\ vulns[i].severity = severity
                    /\ vulns[i].status = "Open"})

\* A faulty variant of CountRisk: the status of the finding is not looked at.
CountRisk_AnyStatus(vulns, severity) ==
    Cardinality({i \in DOMAIN vulns : ToLower(vulns[i].severity) = severity})

\* iter().filter(|v| v.severity.to_lowercase() == severity
\*                   && v.status == "Open").count()
CountRisk(vulns, severity) ==
    Cardinality({i \in DOMAIN vulns :
                    /\ ToLower(vulns[i].severity) = severity
                    /\ vulns[i].status = "Open"})

MakeSummary(controls, vulns) ==
    [total_controls |-> Len(controls),
     compliant_controls |-> CountStatus(controls, "compliant"),
     non_compliant_controls |-> CountStatus(controls, "non-compliant"),
     not_applicable_controls |-> CountStatus(controls, "not-applicable"),
     not_reviewed_controls |-> CountStatus(controls, "not-reviewed"),
     high_risk_findings |-> CountRisk(vulns, "high"),
     medium_risk_findings |-> CountRisk(vulns, "medium"),
     low_risk_findings |-> CountRisk(vulns, "low")]

NoSummary ==
    [total_controls |-> 0, compliant_controls |-> 0,
     non_compliant_controls |-> 0, not_applicable_controls |-> 0,
     not_reviewed_controls |-> 0, high_risk_findings |-> 0,
     medium_risk_findings |-> 0, low_risk_findings |-> 0]

(***************************************************************************)
(* Spec: a checklist is put together finding by finding (by the parser,    *)
(* the merger or the surrounding system), then create_mapping_result is    *)
(* called on it with the catalog.                                          *)
(***************************************************************************)
AggInit ==
    /\ pc = "agg_input"
    /\ cci_mappings \in Catalogs
    /\ vulnerabilities = <<>>
    /\ mapped_controls = <<>>
    /\ summary = NoSummary
    /\ CodecIdle
    /\ MergeIdle
    /\ CatalogIdle

AddVuln ==
    /\ pc = "agg_input"
    /\ Len(vulnerabilities) < MaxVulns
    /\ \E v \in Vulns : vulnerabilities' = Append(vulnerabilities, v)
    /\ UNCHANGED <<pc, cci_mappings, mapped_controls, summary>>
    /\ UNCHANGED <<codecVars, mergeVars, catalogVars>>

CreateMappingResult ==
    /\ pc = "agg_input"
    /\ mapped_controls' =
          map_stig_to_nist_controls(vulnerabilities, cci_mappings)
    /\ summary' = MakeSummary(mapped_controls', vulnerabilities)
    /\ pc' = "agg_done"
    /\ UNCHANGED <<cci_mappings, vulnerabilities>>
    /\ UNCHANGED <<codecVars, mergeVars, catalogVars>>

AggNext == AddVuln \/ CreateMappingResult

Spec == AggInit /\ [][AggNext]_vars

(***************************************************************************)
(* What the claims about the aggregator speak of.                          *)
(***************************************************************************)
\* The controls the catalog gives a correlation identifier: those of the
\* last record that carries the identifier, none when no record does.
CatalogControls(id) ==
    LET at == {i \in DOMAIN cci_mappings : cci_mappings[i].id = id}
    IN IF at = {} THEN <<>>
       ELSE cci_mappings[CHOOSE i \in at : \A j \in at : j <= i].nist_controls

\* A finding is correlated to a control when one of its references is
\* mapped to the control by the catalog.
Correlated(vuln, nist_control) ==
    \E k \in DOMAIN vuln.cci_refs :
        Contains(CatalogControls(vuln.cci_refs[k]), nist_control)

CorrelatedVulns(vulns, nist_control) ==
    {i \in DOMAIN vulns : Correlated(vulns[i], nist_control)}

PriorityVerdict(statuses) ==
    IF "Open" \in statuses THEN "non-compliant"
    ELSE IF "NotAFinding" \in statuses THEN "compliant"
    ELSE IF "NotApplicable" \in statuses THEN "not-applicable"
    ELSE "not-reviewed"

IsSeverity(severity, name) ==
    \/ severity = name
    \/ name = "high" /\ severity = "HIGH"
    \/ name = "medium" /\ severity = "Medium"

MaxSeverity(severities) ==
    IF \E x \in severities : IsSeverity(x, "high") THEN "high"
    ELSE IF \E x \in severities : IsSeverity(x, "medium") THEN "medium"
    ELSE "low"

AggDone == pc = "agg_done"

\* C1: the compliance verdict of every mapped control is decided by the set
\* of status values of the findings correlated to it, under the priority
\* Open > NotAFinding > NotApplicable > anything else, whatever the order of
\* the findings.
C1_ComplianceByPriority ==
    AggDone =>
        \A c \in DOMAIN mapped_controls :
            LET mc == mapped_controls[c]
                on == CorrelatedVulns(vulnerabilities, mc.nist_control)
            IN mc.compliance_status =
                  PriorityVerdict({vulnerabilities[i].status : i \in on})

\* A control whose first correlated finding is NotAFinding and whose second
\* is NotApplicable: the lower-priority status arrives last.
C1_Witness ==
    /\ AggDone
    /\ Len(vulnerabilities) = 2
    /\ vulnerabilities[1].status = "NotAFinding"
    /\ vulnerabilities[2].status = "NotApplicable"
    /\ \E c \in DOMAIN mapped_controls :
          /\ CorrelatedVulns(vulnerabilities,
                             mapped_controls[c].nist_control) = {1, 2}
          /\ mapped_controls[c].compliance_status = "compliant"

\* C2: the risk level of every mapped control is the highest severity among
\* the findings correlated to it, whatever their status; a severity is read
\* case-insensitively and one that is none of high / medium / low counts as
\* low.
C2_RiskIsMaxSeverity ==
    AggDone =>
        \A c \in DOMAIN mapped_controls :
            LET mc == mapped_controls[c]
                on == CorrelatedVulns(vulnerabilities, mc.nist_control)
            IN mc.risk_level =
                  MaxSeverity({vulnerabilities[i].severity : i \in on})

\* A control that is 'high' because of a closed (NotAFinding) finding of
\* severity high, followed by an Open finding of severity medium.
C2_Witness ==
    /\ AggDone
    /\ Len(vulnerabilities) = 2
    /\ vulnerabilities[1].status = "NotAFinding"
    /\ IsSeverity(vulnerabilities[1].severity, "high")
    /\ vulnerabilities[2].status = "Open"
    /\ IsSeverity(vulnerabilities[2].severity, "medium")
    /\ \E c \in DOMAIN mapped_controls :
          /\ CorrelatedVulns(vulnerabilities,
                             mapped_controls[c].nist_control) = {1, 2}
          /\ mapped_controls[c].risk_level = "high"

\* The permutations of a list.
Perms(n) == {f \in [1..n -> 1..n] : \A a, b \in 1..n : f[a] = f[b] => a = b}

Permuted(seq, f) == [i \in 1..Len(seq) |-> seq[f[i]]]

Range(seq) == {seq[i] : i \in DOMAIN seq}

\* A list of mapped controls as a set of values, the lists inside a control
\* read as sets.
ControlSet(controls) ==
    {[nist_control |-> controls[c].nist_control,
      compliance_status |-> controls[c].compliance_status,
      risk_level |-> controls[c].risk_level,
      ccis |-> Range(controls[c].ccis),
      stigs |-> Range(controls[c].stigs)] : c \in DOMAIN controls}

\* C3: for every permutation of the finding list the aggregator returns the
\* same set of mapped controls: the same identifiers, verdicts, sets of
\* correlation identifiers and sets of member findings.
C3_OrderIndependence ==
    AggDone =>
        \A f \in Perms(Len(vulnerabilities)) :
            ControlSet(map_stig_to_nist_controls(
                          Permuted(vulnerabilities, f), cci_mappings))
                = ControlSet(mapped_controls)

ScenarioCatalog == <<[id |-> "CCI-000001", nist_controls |-> <<"AC-2">>]>>

ScenarioV1 ==
    [vuln_num |-> "V-1", severity |-> "high", status |-> "Open",
     cci_refs |-> <<"CCI-000001">>]

ScenarioV2 ==
    [vuln_num |-> "V-2", severity |-> "low", status |-> "NotAFinding",
     cci_refs |-> <<"CCI-000001">>]

Scenario ==
    /\ cci_mappings = ScenarioCatalog
    /\ vulnerabilities = <<ScenarioV1, ScenarioV2>>

\* C6: on the scenario of the specification (catalog CCI-000001 -> AC-2,
\* findings V-1 Open high and V-2 NotAFinding low, both on CCI-000001) the
\* result holds one control, AC-2, with ccis [CCI-000001], stigs [V-1, V-2],
\* non-compliant, high, and the summary counts 1 control, 1 non-compliant,
\* 0 compliant, 1 high-risk, 0 medium-risk and 0 low-risk findings.
C6_Scenario ==
    (AggDone /\ Scenario) =>
        /\ mapped_controls =
              <<[nist_control |-> "AC-2", ccis |-> <<"CCI-000001">>,
                 stigs |-> <<ScenarioV1, ScenarioV2>>,
                 compliance_status |-> "non-compliant",
                 risk_level |-> "high"]>>
        /\ summary.total_controls = 1
        /\ summary.non_compliant_controls = 1
        /\ summary.compliant_controls = 0
        /\ summary.high_risk_findings = 1
        /\ summary.medium_risk_findings = 0
        /\ summary.low_risk_findings = 0

C6_Witness == AggDone /\ Scenario /\ Len(mapped_controls) = 1

\* The references of all findings, in the order the aggregator meets them.
RECURSIVE AllRefs(_)
AllRefs(vulns) ==
    IF vulns = <<>> THEN <<>> ELSE Head(vulns).cci_refs \o AllRefs(Tail(vulns))

FirstAt(seq, x) ==
    CHOOSE i \in DOMAIN seq : seq[i] = x /\ \A j \in 1..(i - 1) : seq[j] # x

\* C10: the ccis list of every mapped control holds exactly the referenced
\* correlation identifiers that the catalog maps to the control, each once,
\* in the order in which the aggregator first meets them.
C10_CcisDeduplicated ==
    AggDone =>
        \A c \in DOMAIN mapped_controls :
            LET mc == mapped_controls[c]
                refs == AllRefs(vulnerabilities)
            IN /\ \A a, b \in DOMAIN mc.ccis :
                      mc.ccis[a] = mc.ccis[b] => a = b
               /\ Range(mc.ccis) =
                     {r \in Range(refs) :
                         Contains(CatalogControls(r), mc.nist_control)}
               /\ \A a, b \in DOMAIN mc.ccis :
                      a < b => FirstAt(refs, mc.ccis[a])
                                  < FirstAt(refs, mc.ccis[b])

\* A finding that lists one identifier twice, a second finding that refers
\* to the same identifier again, and a control that holds two identifiers.
C10_Witness ==
    /\ AggDone
    /\ Len(vulnerabilities) = 2
    /\ vulnerabilities[1].cci_refs = <<"CCI-000001", "CCI-000001">>
    /\ vulnerabilities[2].cci_refs = <<"CCI-000002", "CCI-000001">>
    /\ \E c \in DOMAIN mapped_controls :
          mapped_controls[c].ccis = <<"CCI-000001", "CCI-000002">>

\* C11: the list of mapped controls is strictly ascending by control
\* identifier in lexicographic order, so no identifier occurs twice.
C11_SortedStrictly ==
    AggDone =>
        \A i, j \in DOMAIN mapped_controls :
            i < j => StrLess(mapped_controls[i].nist_control,
                             mapped_controls[j].nist_control)

\* Two findings lead to the controls SI-4 and AC-10, which the catalog lists
\* in this order; the result lists AC-10 before SI-4.
C11_Witness ==
    /\ AggDone
    /\ Len(vulnerabilities) = 2
    /\ CatalogControls("CCI-000001") = <<"SI-4", "AC-10">>
    /\ \A i \in DOMAIN vulnerabilities :
          vulnerabilities[i].cci_refs = <<"CCI-000001">>
    /\ Len(mapped_controls) = 2
    /\ mapped_controls[1].nist_control = "AC-10"
    /\ mapped_controls[2].nist_control = "SI-4"

\* The findings of the raw list that are Open and of a severity.
OpenWith(name) ==
    {i \in DOMAIN vulnerabilities :
        /\ vulnerabilities[i].status = "Open"
        /\ IsSeverity(vulnerabilities[i].severity, name)}

\* C12: the three risk counts of the summary are the numbers of findings of
\* the raw list that are Open and of severity high, medium and low (read
\* case-insensitively), whether or not a finding is mapped to a control and
\* however many controls it is mapped to.
C12_RiskCountsFromRawList ==
    AggDone =>
        /\ summary.high_risk_findings = Cardinality(OpenWith("high"))
        /\ summary.medium_risk_findings = Cardinality(OpenWith("medium"))
        /\ summary.low_risk_findings = Cardinality(OpenWith("low"))

\* An Open HIGH finding that is a member of two controls and an Open Medium
\* finding that maps to no control.
C12_Witness ==
    /\ AggDone
    /\ Len(vulnerabilities) = 2
    /\ vulnerabilities[1].status = "Open"
    /\ vulnerabilities[1].severity = "HIGH"
    /\ Len(mapped_controls) = 2
    /\ \A c \in DOMAIN mapped_controls :
          mapped_controls[c].stigs = <<vulnerabilities[1]>>
    /\ vulnerabilities[2].status = "Open"
    /\ vulnerabilities[2].severity = "Medium"
    /\ summary.high_risk_findings = 1
    /\ summary.medium_risk_findings = 1

WithVerdict(verdict) ==
    {c \in DOMAIN mapped_controls :
        mapped_controls[c].compliance_status = verdict}

\* C13: total_controls is the number of mapped controls, each of the four
\* verdict counts is the number of controls with that verdict, and the four
\* counts add up to total_controls.
C13_VerdictCounts ==
    AggDone =>
        /\ summary.total_controls = Len(mapped_controls)
        /\ summary.compliant_controls = Cardinality(WithVerdict("compliant"))
        /\ summary.non_compliant_controls =
              Cardinality(WithVerdict("non-compliant"))
        /\ summary.not_applicable_controls =
              Cardinality(WithVerdict("not-applicable"))
        /\ summary.not_reviewed_controls =
              Cardinality(WithVerdict("not-reviewed"))
        /\ summary.compliant_controls + summary.non_compliant_controls
              + summary.not_applicable_controls
              + summary.not_reviewed_controls = summary.total_controls

\* Two controls, one non-compliant and one with another verdict.
C13_Witness ==
    /\ AggDone
    /\ Len(mapped_controls) = 2
    /\ summary.non_compliant_controls = 1
    /\ summary.total_controls = 2

\* The findings at the positions S of a list, in the order of the list.
Shard(vulns, S) ==
    LET Pos(k) == CHOOSE i \in S : Cardinality({j \in S : j < i}) = k - 1
    IN [k \in 1..Cardinality(S) |-> vulns[Pos(k)]]

RankOf(order, x) == CHOOSE i \in DOMAIN order : order[i] = x

ComplianceOrder ==
    <<"not-reviewed", "not-applicable", "compliant", "non-compliant">>

RiskOrder == <<"low", "medium", "high">>

Higher(order, a, b) == IF RankOf(order, a) >= RankOf(order, b) THEN a ELSE b

\* The merge of the per-control states of two shards: the union of the
\* identifier sets and of the finding sets, the compliance verdict and the
\* risk verdict of higher priority.
MergedControls(left, right) ==
    LET l == ControlSet(left)
        r == ControlSet(right)
        ids == {c.nist_control : c \in l \cup r}
        In(set, id) == {c \in set : c.nist_control = id}
        Blank(id) == [nist_control |-> id, compliance_status |-> "not-reviewed",
                      risk_level |-> "low", ccis |-> {}, stigs |-> {}]
        Of(set, id) == IF In(set, id) = {} THEN Blank(id)
                       ELSE CHOOSE c \in In(set, id) : TRUE
    IN {[nist_control |-> id,
         compliance_status |->
            Higher(ComplianceOrder, Of(l, id).compliance_status,
                   Of(r, id).compliance_status),
         risk_level |->
            Higher(RiskOrder, Of(l, id).risk_level, Of(r, id).risk_level),
         ccis |-> Of(l, id).ccis \cup Of(r, id).ccis,
         stigs |-> Of(l, id).stigs \cup Of(r, id).stigs] : id \in ids}

\* C17: for every split of the finding list into two shards, aggregating
\* each shard with the catalog and merging the per-control states gives the
\* controls, verdicts, identifier sets and finding sets that the aggregator
\* gives for the whole list.
C17_ShardedAggregation ==
    AggDone =>
        \A S \in SUBSET DOMAIN vulnerabilities :
            MergedControls(
                map_stig_to_nist_controls(Shard(vulnerabilities, S),
                                          cci_mappings),
                map_stig_to_nist_controls(
                    Shard(vulnerabilities, (DOMAIN vulnerabilities) \ S),
                    cci_mappings))
              = ControlSet(mapped_controls)

(***************************************************************************)
(* Text.  A string of the codec is a sequence of symbols: one of the five  *)
(* characters XML escapes, " " for a run of white space, one of the five   *)
(* entity names with its semicolon ("amp;" is the three letters and the    *)
(* semicolon that follow the ampersand in "&amp;"), or a word that holds   *)
(* none of these ("V-1", "Vuln_Num").                                      *)
(***************************************************************************)
T(word) == <<word>>

\* str::replace(ch, with), one pass from left to right.
RECURSIVE Replace(_, _, _)
Replace(text, ch, with) ==
    IF text = <<>> THEN <<>>
    ELSE (IF Head(text) = ch THEN with ELSE <<Head(text)>>)
            \o Replace(Tail(text), ch, with)

escape_xml_AmpersandLast(text) ==
    Replace(
      Replace(
        Replace(
          Replace(
            Replace(text, "<", <<"&", "lt;">>),
            ">", <<"&", "gt;">>),
          "\"", <<"&", "quot;">>),
        "'", <<"&", "apos;">>),
      "&", <<"&", "amp;">>)

\* A faulty variant of escape_xml: the apostrophe is left as it is.
escape_xml_NoApostrophe(text) ==
    Replace(
      Replace(
        Replace(
          Replace(text, "&", <<"&", "amp;">>),
          "<", <<"&", "lt;">>),
        ">", <<"&", "gt;">>),
      "\"", <<"&", "quot;">>)

escape_xml(text) ==
    Replace(
      Replace(
        Replace(
          Replace(
            Replace(text, "&", <<"&", "amp;">>),
            "<", <<"&", "lt;">>),
          ">", <<"&", "gt;">>),
        "\"", <<"&", "quot;">>),
      "'", <<"&", "apos;">>)

EntityNames == {"amp;", "lt;", "gt;", "quot;", "apos;"}

EntityChar(name) ==
    CASE name = "amp;" -> "&"
      [] name = "lt;" -> "<"
      [] name = "gt;" -> ">"
      [] name = "quot;" -> "\""
      [] name = "apos;" -> "'"

\* quick_xml's BytesText::unescape followed by unwrap_or_default(): every
\* ampersand must start one of the predefined entities, else the call fails
\* and the text is empty; an entity is replaced by its character.
UnescapeOrDefault(raw) ==
    LET amps == {i \in DOMAIN raw : raw[i] = "&"}
        valid == \A i \in amps : i < Len(raw) /\ raw[i + 1] \in EntityNames
        marked == [i \in DOMAIN raw |->
                      IF raw[i] = "&" THEN <<TRUE, EntityChar(raw[i + 1])>>
                      ELSE IF i > 1 /\ raw[i - 1] = "&" THEN <<FALSE, raw[i]>>
                      ELSE <<TRUE, raw[i]>>]
        Kept(m) == m[1]
        kept == SelectSeq(marked, Kept)
    IN IF valid THEN [i \in DOMAIN kept |-> kept[i][2]] ELSE <<>>

\* str::trim
RECURSIVE TrimStart(_)
TrimStart(text) ==
    IF text # <<>> /\ Head(text) = " " THEN TrimStart(Tail(text)) ELSE text

RECURSIVE TrimEnd(_)
TrimEnd(text) ==
    IF text # <<>> /\ text[Len(text)] = " "
    THEN TrimEnd(SubSeq(text, 1, Len(text) - 1)) ELSE text

Trim(text) == TrimEnd(TrimStart(text))

(***************************************************************************)
(* Documents and the tag stream.  A document is the sequence of its markup *)
(* items: start tags, end tags, runs of character data between two tags,   *)
(* the XML declaration, comments, and "bad" for markup that is not         *)
(* well-formed.  Reader::from_str with trim_text(true) turns it into the   *)
(* events the parser loops over.                                           *)
(***************************************************************************)
Item(kind, name, raw) == [kind |-> kind, name |-> name, raw |-> raw]

StartTag(name) == Item("start", name, <<>>)

EndTag(name) == Item("end", name, <<>>)

Chars(raw) == Item("text", "", raw)

\* A line break and the indentation of the next line.
WS == Chars(<<" ">>)

\* The error of the reader; position is what buffer_position() gives, here
\* the number of markup items read before the malformed one.
ReadError(position) ==
    [kind |-> "err", name |-> "", raw |-> <<>>, position |-> position]

\* read_event_into over the whole document: character data is trimmed and
\* dropped when nothing is left, malformed markup ends the stream with an
\* error, the end of the text with Eof.
ReadEvents(doc) ==
    LET bad == {i \in DOMAIN doc : doc[i].kind = "bad"}
        upto == IF bad = {} THEN Len(doc)
                ELSE (CHOOSE i \in bad : \A j \in bad : i <= j) - 1
        trimmed == [i \in 1..upto |->
                       IF doc[i].kind = "text" THEN Chars(Trim(doc[i].raw))
                       ELSE doc[i]]
        IsEvent(item) == ~(item.kind = "text" /\ item.raw = <<>>)
    IN SelectSeq(trimmed, IsEvent)
          \o <<IF bad = {} THEN Item("eof", "", <<>>) ELSE ReadError(upto)>>

(***************************************************************************)
(* parse_stig_checklist                                                    *)
(***************************************************************************)
EmptyAsset ==
    [role |-> <<>>, asset_type |-> <<>>, marking |-> <<>>,
     host_name |-> <<>>, host_ip |-> <<>>, host_mac |-> <<>>,
     host_fqdn |-> <<>>, target_comment |-> <<>>, tech_area |-> <<>>,
     target_key |-> <<>>, web_or_database |-> FALSE, web_db_site |-> <<>>,
     web_db_instance |-> <<>>]

EmptyStigInfo ==
    [version |-> <<>>, classification |-> <<>>, custom_name |-> <<>>,
     stig_id |-> <<>>, description |-> <<>>, file_name |-> <<>>,
     release_info |-> <<>>, title |-> <<>>, uuid |-> <<>>, notice |-> <<>>,
     source |-> <<>>]

EmptyVuln ==
    [vuln_num |-> <<>>, severity |-> <<>>, group_title |-> <<>>,
     rule_id |-> <<>>, rule_ver |-> <<>>, rule_title |-> <<>>,
     vuln_discuss |-> <<>>, check_content |-> <<>>, fix_text |-> <<>>,
     cci_refs |-> <<>>, status |-> <<>>, finding_details |-> <<>>,
     comments |-> <<>>, severity_override |-> None,
     severity_justification |-> None, stig_id |-> <<>>]

\* The locals of parse_stig_checklist before its loop, and the exit the loop
\* has taken (<<"none">> while it turns, <<"eof">>, or <<"err", position>>).  (_current_element is written and
\* never read.)
InitialParser ==
    [asset |-> EmptyAsset, stig_info |-> EmptyStigInfo,
     vulnerabilities |-> <<>>, current_text |-> <<>>,
     in_asset |-> FALSE, in_stig_info |-> FALSE, in_vuln |-> FALSE,
     current_vuln |-> None, stig_data_map |-> EmptyMap,
     si_data_map |-> EmptyMap, current_vuln_attribute |-> <<>>,
     current_sid_name |-> <<>>, exit |-> <<"none">>]

\* map.get(key).unwrap_or(&String::new()).clone()
MapGet(map, word) == IF T(word) \in DOMAIN map THEN map[T(word)] ELSE <<>>

\* Ok(Event::Start(e))
OnStart(st, name) ==
    LET s1 == CASE name = "ASSET" -> [st EXCEPT !.in_asset = TRUE]
                [] name = "STIG_INFO" -> [st EXCEPT !.in_stig_info = TRUE]
                [] name = "VULN" ->
                      [st EXCEPT !.in_vuln = TRUE,
                                 !.current_vuln = Some(EmptyVuln),
                                 !.stig_data_map = EmptyMap]
                [] OTHER -> st
    IN [s1 EXCEPT !.current_text = <<>>]

\* Ok(Event::Text(e))
OnText(st, raw) ==
    [st EXCEPT !.current_text = @ \o UnescapeOrDefault(raw)]

\* if let Some(ref mut vuln) = current_vuln { vuln.<field> = value }
SetVulnField(st, field, value) ==
    IF st.current_vuln = None THEN st
    ELSE [st EXCEPT !.current_vuln =
             Some([st.current_vuln[2] EXCEPT ![field] = value])]

OptionOf(text) == IF text = <<>> THEN None ELSE Some(text)

\* The first match of the End arm: the element that has just ended is
\* stored according to the block the parser is in.
StoreElement(st, name, text) ==
    CASE name = "ROLE" /\ st.in_asset -> [st EXCEPT !.asset.role = text]
      [] name = "ASSET_TYPE" /\ st.in_asset ->
            [st EXCEPT !.asset.asset_type = text]
      [] name = "MARKING" /\ st.in_asset -> [st EXCEPT !.asset.marking = text]
      [] name = "HOST_NAME" /\ st.in_asset ->
            [st EXCEPT !.asset.host_name = text]
      [] name = "HOST_IP" /\ st.in_asset -> [st EXCEPT !.asset.host_ip = text]
      [] name = "HOST_MAC" /\ st.in_asset ->
            [st EXCEPT !.asset.host_mac = text]
      [] name = "HOST_FQDN" /\ st.in_asset ->
            [st EXCEPT !.asset.host_fqdn = text]
      [] name = "TARGET_COMMENT" /\ st.in_asset ->
            [st EXCEPT !.asset.target_comment = text]
      [] name = "TECH_AREA" /\ st.in_asset ->
            [st EXCEPT !.asset.tech_area = text]
      [] name = "TARGET_KEY" /\ st.in_asset ->
            [st EXCEPT !.asset.target_key = text]
      [] name = "WEB_OR_DATABASE" /\ st.in_asset ->
            [st EXCEPT !.asset.web_or_database = (text = T("true"))]
      [] name = "WEB_DB_SITE" /\ st.in_asset ->
            [st EXCEPT !.asset.web_db_site = text]
      [] name = "WEB_DB_INSTANCE" /\ st.in_asset ->
            [st EXCEPT !.asset.web_db_instance = text]
      [] name = "SID_NAME" /\ st.in_stig_info ->
            [st EXCEPT !.current_sid_name = text]
      [] name = "SID_DATA" /\ st.in_stig_info ->
            [st EXCEPT !.si_data_map =
                MapInsert(@, st.current_sid_name, text)]
      [] name = "VULN_ATTRIBUTE" /\ st.in_vuln ->
            [st EXCEPT !.current_vuln_attribute = text]
      [] name = "ATTRIBUTE_DATA" /\ st.in_vuln ->
            [st EXCEPT !.stig_data_map =
                MapInsert(@, st.current_vuln_attribute, text)]
      [] name = "STATUS" /\ st.in_vuln -> SetVulnField(st, "status", text)
      [] name = "FINDING_DETAILS" /\ st.in_vuln ->
            SetVulnField(st, "finding_details", text)
      [] name = "COMMENTS" /\ st.in_vuln ->
            SetVulnField(st, "comments", text)
      [] name = "SEVERITY_OVERRIDE" /\ st.in_vuln ->
            SetVulnField(st, "severity_override", OptionOf(text))
      [] name = "SEVERITY_JUSTIFICATION" /\ st.in_vuln ->
            SetVulnField(st, "severity_justification", OptionOf(text))
      [] OTHER -> st

\* "Populate stig_info from collected data"
ProjectStigInfo(map) ==
    [version |-> MapGet(map, "version"),
     classification |-> MapGet(map, "classification"),
     custom_name |-> MapGet(map, "customname"),
     stig_id |-> MapGet(map, "stigid"),
     description |-> MapGet(map, "description"),
     file_name |-> MapGet(map, "filename"),
     release_info |-> MapGet(map, "releaseinfo"),
     title |-> MapGet(map, "title"),
     uuid |-> MapGet(map, "uuid"),
     notice |-> MapGet(map, "notice"),
     source |-> MapGet(map, "source")]

\* "Collect all CCI references": the loop over the entries of stig_data_map
\* pushes the value of every entry whose key is CCI_REF and whose value is
\* not empty.  A map holds one entry per key.
CollectCciRefs(cci_refs, map) ==
    IF T("CCI_REF") \in DOMAIN map /\ map[T("CCI_REF")] # <<>>
    THEN Append(cci_refs, map[T("CCI_REF")])
    ELSE cci_refs

\* "Populate vulnerability from collected STIG data"
ProjectVuln(vuln, map) ==
    [vuln EXCEPT
        !.vuln_num = MapGet(map, "Vuln_Num"),
        !.severity = MapGet(map, "Severity"),
        !.group_title = MapGet(map, "Group_Title"),
        !.rule_id = MapGet(map, "Rule_ID"),
        !.rule_ver = MapGet(map, "Rule_Ver"),
        !.rule_title = MapGet(map, "Rule_Title"),
        !.vuln_discuss = MapGet(map, "Vuln_Discuss"),
        !.check_content = MapGet(map, "Check_Content"),
        !.fix_text = MapGet(map, "Fix_Text"),
        !.stig_id = MapGet(map, "Rule_Ver"),
        !.cci_refs = CollectCciRefs(@, map)]

\* "Handle end tags": the second match of the End arm.
CloseBlock(st, name) ==
    CASE name = "ASSET" -> [st EXCEPT !.in_asset = FALSE]
      [] name = "STIG_INFO" ->
            [st EXCEPT !.in_stig_info = FALSE,
                       !.stig_info = ProjectStigInfo(st.si_data_map)]
      [] name = "VULN" ->
            IF st.current_vuln = None THEN [st EXCEPT !.in_vuln = FALSE]
            ELSE [st EXCEPT
                    !.vulnerabilities =
                        Append(@, ProjectVuln(st.current_vuln[2],
                                              st.stig_data_map)),
                    !.current_vuln = None,
                    !.in_vuln = FALSE]
      [] OTHER -> st

\* Ok(Event::End(e))
OnEnd(st, name) ==
    LET text == Trim(st.current_text)
        s2 == CloseBlock(StoreElement(st, name, text), name)
    IN [s2 EXCEPT !.current_text = <<>>]

\* One turn of the loop: Eof breaks, an error of the reader returns, and
\* events of any other kind fall to the `_ => {}` arm.
ParseEvent(st, ev) ==
    CASE ev.kind = "start" -> OnStart(st, ev.name)
      [] ev.kind = "text" -> OnText(st, ev.raw)
      [] ev.kind = "end" -> OnEnd(st, ev.name)
      [] ev.kind = "eof" -> [st EXCEPT !.exit = <<"eof">>]
      [] ev.kind = "err" -> [st EXCEPT !.exit = <<"err", ev.position>>]
      [] OTHER -> st

Ok(value) == <<"Ok", value>>

Err(error) == <<"Err", error>>

IsOk(result) == result[1] = "Ok"

\* Err(StigError::XmlParsing(format!("Error at position {}: {:?}", ..)))
XmlParsing(position) == Err(<<"XmlParsing", position>>)

\* The turns of the loop on events[lo..hi], one after the other from lo to
\* hi, until the loop is left.  (The range is split in halves, which keeps
\* the evaluation shallow.)
RECURSIVE ParseEvents(_, _, _, _)
ParseEvents(st, events, lo, hi) ==
    IF st.exit # <<"none">> \/ lo > hi THEN st
    ELSE IF lo = hi THEN ParseEvent(st, events[lo])
    ELSE LET mid == (lo + hi) \div 2
         IN ParseEvents(ParseEvents(st, events, lo, mid), events, mid + 1, hi)

\* The loop of parse_stig_checklist and its two exits: Eof returns the
\* checklist, an error of the reader returns XmlParsing and nothing else.
ParseLoop(events) ==
    LET st == ParseEvents(InitialParser, events, 1, Len(events))
    IN IF st.exit[1] = "err" THEN XmlParsing(st.exit[2])
       ELSE Ok([asset |-> st.asset, stig_info |-> st.stig_info,
                vulnerabilities |-> st.vulnerabilities])

\* parse_stig_checklist on the content of a file that could be read.
ParseDocument(doc) == ParseLoop(ReadEvents(doc))

(***************************************************************************)
(* generate_ckl_xml                                                        *)
(***************************************************************************)
\* One output line "<NAME>text</NAME>\n".
TextLine(name, raw) == <<StartTag(name), Chars(raw), EndTag(name), WS>>

\* One output line that holds a single tag.
TagLine(tag) == <<tag, WS>>

\* format!("{}", checklist.asset.web_or_database)
BoolText(b) == IF b THEN T("true") ELSE T("false")

\* Option<String>::as_ref().unwrap_or(&String::new())
UnwrapOrEmpty(opt) == IF opt = None THEN <<>> ELSE opt[2]

AssetXml(asset) ==
    TagLine(StartTag("ASSET"))
    \o TextLine("ROLE", escape_xml(asset.role))
    \o TextLine("ASSET_TYPE", escape_xml(asset.asset_type))
    \o TextLine("MARKING", escape_xml(asset.marking))
    \o TextLine("HOST_NAME", escape_xml(asset.host_name))
    \o TextLine("HOST_IP", escape_xml(asset.host_ip))
    \o TextLine("HOST_MAC", escape_xml(asset.host_mac))
    \o TextLine("HOST_FQDN", escape_xml(asset.host_fqdn))
    \o TextLine("TARGET_COMMENT", escape_xml(asset.target_comment))
    \o TextLine("TECH_AREA", escape_xml(asset.tech_area))
    \o TextLine("TARGET_KEY", escape_xml(asset.target_key))
    \o TextLine("WEB_OR_DATABASE", BoolText(asset.web_or_database))
    \o TextLine("WEB_DB_SITE", escape_xml(asset.web_db_site))
    \o TextLine("WEB_DB_INSTANCE", escape_xml(asset.web_db_instance))
    \o TagLine(EndTag("ASSET"))

\* One SI_DATA block: the name is written as it stands, the data escaped.
SiData(word, value) ==
    TagLine(StartTag("SI_DATA"))
    \o TextLine("SID_NAME", T(word))
    \o TextLine("SID_DATA", escape_xml(value))
    \o TagLine(EndTag("SI_DATA"))

StigInfoXml(stig_info) ==
    TagLine(StartTag("STIG_INFO"))
    \o SiData("version", stig_info.version)
    \o SiData("classification", stig_info.classification)
    \o SiData("customname", stig_info.custom_name)
    \o SiData("stigid", stig_info.stig_id)
    \o SiData("description", stig_info.description)
    \o SiData("filename", stig_info.file_name)
    \o SiData("releaseinfo", stig_info.release_info)
    \o SiData("title", stig_info.title)
    \o SiData("uuid", stig_info.uuid)
    \o SiData("notice", stig_info.notice)
    \o SiData("source", stig_info.source)
    \o TagLine(EndTag("STIG_INFO"))

add_stig_data(attribute, value) ==
    TagLine(StartTag("STIG_DATA"))
    \o TextLine("VULN_ATTRIBUTE", escape_xml(attribute))
    \o TextLine("ATTRIBUTE_DATA", escape_xml(value))
    \o TagLine(EndTag("STIG_DATA"))

\* A faulty variant of CciRefsXml: the references are written last first.
RECURSIVE CciRefsXml_Reversed(_)
CciRefsXml_Reversed(cci_refs) ==
    IF cci_refs = <<>> THEN <<>>
    ELSE CciRefsXml_Reversed(Tail(cci_refs))
            \o add_stig_data(T("CCI_REF"), Head(cci_refs))

\* for cci_ref in &vuln.cci_refs { add_stig_data(&mut xml, "CCI_REF", ..) }
RECURSIVE CciRefsXml(_)
CciRefsXml(cci_refs) ==
    IF cci_refs = <<>> THEN <<>>
    ELSE add_stig_data(T("CCI_REF"), Head(cci_refs))
            \o CciRefsXml(Tail(cci_refs))

\* A faulty variant of StigRef: the release info stands before the title.
StigRef_ReleaseFirst(stig_info) ==
    stig_info.release_info \o <<" ", "::", " ">> \o stig_info.title

\* format!("{} :: {}", checklist.stig_info.title, ..release_info)
StigRef(stig_info) ==
    stig_info.title \o <<" ", "::", " ">> \o stig_info.release_info

VulnXml(checklist, vuln) ==
    TagLine(StartTag("VULN"))
    \o add_stig_data(T("Vuln_Num"), vuln.vuln_num)
    \o add_stig_data(T("Severity"), vuln.severity)
    \o add_stig_data(T("Group_Title"), vuln.group_title)
    \o add_stig_data(T("Rule_ID"), vuln.rule_id)
    \o add_stig_data(T("Rule_Ver"), vuln.rule_ver)
    \o add_stig_data(T("Rule_Title"), vuln.rule_title)
    \o add_stig_data(T("Vuln_Discuss"), vuln.vuln_discuss)
    \o add_stig_data(T("IA_Controls"), <<>>)
    \o add_stig_data(T("Check_Content"), vuln.check_content)
    \o add_stig_data(T("Fix_Text"), vuln.fix_text)
    \o add_stig_data(T("False_Positives"), <<>>)
    \o add_stig_data(T("False_Negatives"), <<>>)
    \o add_stig_data(T("Documentable"), T("false"))
    \o add_stig_data(T("Mitigations"), <<>>)
    \o add_stig_data(T("Potential_Impact"), <<>>)
    \o add_stig_data(T("Third_Party_Tools"), <<>>)
    \o add_stig_data(T("Mitigation_Control"), <<>>)
    \o add_stig_data(T("Responsibility"), <<>>)
    \o add_stig_data(T("Security_Override_Guidance"), <<>>)
    \o add_stig_data(T("Check_Content_Ref"), T("M"))
    \o add_stig_data(T("Weight"), T("10.0"))
    \o add_stig_data(T("Class"), T("Unclass"))
    \o add_stig_data(T("STIGRef"), StigRef(checklist.stig_info))
    \o add_stig_data(T("TargetKey"), checklist.asset.target_key)
    \o add_stig_data(T("STIG_UUID"), <<>>)
    \o add_stig_data(T("LEGACY_ID"), <<>>)
    \o CciRefsXml(vuln.cci_refs)
    \o TextLine("STATUS", escape_xml(vuln.status))
    \o TextLine("FINDING_DETAILS", escape_xml(vuln.finding_details))
    \o TextLine("COMMENTS", escape_xml(vuln.comments))
    \o TextLine("SEVERITY_OVERRIDE",
                escape_xml(UnwrapOrEmpty(vuln.severity_override)))
    \o TextLine("SEVERITY_JUSTIFICATION",
                escape_xml(UnwrapOrEmpty(vuln.severity_justification)))
    \o TagLine(EndTag("VULN"))

\* for vuln in &checklist.vulnerabilities
RECURSIVE VulnsXml(_, _)
VulnsXml(checklist, vulns) ==
    IF vulns = <<>> THEN <<>>
    ELSE VulnXml(checklist, Head(vulns)) \o VulnsXml(checklist, Tail(vulns))

generate_ckl_xml(checklist) ==
    TagLine(Item("decl", "xml", <<>>))
    \o TagLine(Item("comment", "", <<>>))
    \o TagLine(StartTag("CHECKLIST"))
    \o AssetXml(checklist.asset)
    \o TagLine(StartTag("STIGS"))
    \o TagLine(StartTag("iSTIG"))
    \o StigInfoXml(checklist.stig_info)
    \o VulnsXml(checklist, checklist.vulnerabilities)
    \o TagLine(EndTag("iSTIG"))
    \o TagLine(EndTag("STIGS"))
    \o TagLine(EndTag("CHECKLIST"))

(***************************************************************************)
(* SpecCodec: a checklist file is parsed, the result is written back with  *)
(* generate_ckl_xml (export_updated_checklist) and the written text is     *)
(* parsed again.  The files are those the serializer writes for the        *)
(* checklist structures of the surrounding system, and documents of other  *)
(* tools.                                                                  *)
(***************************************************************************)
MaxSeedVulns == 2

\* Field content: empty, a word, surrounded by white space, white space
\* inside, each of the characters XML escapes, and text that reads like an
\* entity.
Texts ==
    {<<>>, <<"a">>, <<" ", "a", " ">>, <<"a", " ", "b">>, <<"&">>,
     <<"<", "a", ">">>, <<"\"", "'">>, <<"&", "amp;">>}

\* The content of a field: the field's own word inside the chosen text, so
\* that no two fields of a structure hold the same value.
Mark(word, t) == IF t = <<>> THEN <<>> ELSE t \o <<word>> \o t

CodecRefLists ==
    {<<>>, <<T("CCI-000001")>>, <<T("CCI-000001"), T("CCI-000002")>>,
     <<T("CCI-000002"), T("CCI-000001")>>}

SeedAsset(t, web) ==
    [role |-> Mark("role", t), asset_type |-> Mark("asset_type", t),
     marking |-> Mark("marking", t), host_name |-> Mark("host_name", t),
     host_ip |-> Mark("host_ip", t), host_mac |-> Mark("host_mac", t),
     host_fqdn |-> Mark("host_fqdn", t),
     target_comment |-> Mark("target_comment", t),
     tech_area |-> Mark("tech_area", t), target_key |-> Mark("target_key", t),
     web_or_database |-> web, web_db_site |-> Mark("web_db_site", t),
     web_db_instance |-> Mark("web_db_instance", t)]

SeedStigInfo(t) ==
    [version |-> Mark("version", t),
     classification |-> Mark("classification", t),
     custom_name |-> Mark("custom_name", t), stig_id |-> Mark("stig_id", t),
     description |-> Mark("description", t),
     file_name |-> Mark("file_name", t),
     release_info |-> Mark("release_info", t), title |-> Mark("title", t),
     uuid |-> Mark("uuid", t), notice |-> Mark("notice", t),
     source |-> Mark("source", t)]

SeedVuln(i, t, choice) ==
    [vuln_num |-> <<"V-", ToString(i)>>, severity |-> T("medium"),
     group_title |-> Mark("group_title", t), rule_id |-> Mark("rule_id", t),
     rule_ver |-> Mark("rule_ver", t), rule_title |-> Mark("rule_title", t),
     vuln_discuss |-> Mark("vuln_discuss", t),
     check_content |-> Mark("check_content", t),
     fix_text |-> Mark("fix_text", t), cci_refs |-> choice.cci_refs,
     status |-> T("Open"), finding_details |-> t,
     comments |-> Mark("comments", t),
     severity_override |->
        IF choice.override THEN Some(T("high")) ELSE None,
     severity_justification |->
        IF choice.override THEN Some(Mark("justification", t)) ELSE None,
     stig_id |-> Mark("rule_ver", t)]

VulnChoices == [cci_refs : CodecRefLists, override : BOOLEAN]

SeedChecklists ==
    {[asset |-> SeedAsset(t, web), stig_info |-> SeedStigInfo(t),
      vulnerabilities |->
         [i \in DOMAIN choices |-> SeedVuln(i, t, choices[i])]] :
        t \in Texts, web \in BOOLEAN,
        choices \in UNION {[1..n -> VulnChoices] : n \in 0..MaxSeedVulns}}

Elem(name, raw) == <<StartTag(name), Chars(raw), EndTag(name)>>

Pair(outer, name_tag, name, data_tag, raw) ==
    <<StartTag(outer)>> \o Elem(name_tag, name) \o Elem(data_tag, raw)
        \o <<EndTag(outer)>>

StigData(word, raw) ==
    Pair("STIG_DATA", "VULN_ATTRIBUTE", T(word), "ATTRIBUTE_DATA", raw)

\* A checklist of another tool: fields missing, an element the parser does
\* not know, a flag and a key in capitals, a comment inside character data,
\* an ampersand that starts no entity, a finding with three references and
\* one with none.
ForeignDocument ==
    <<Item("decl", "xml", <<>>), StartTag("CHECKLIST"), WS,
      StartTag("ASSET")>>
    \o Elem("ROLE", <<" ", "None", " ">>)
    \o Elem("VENDOR", T("x"))
    \o Elem("HOST_NAME", <<"&", "lt;", "web", "&", "gt;">>)
    \o Elem("WEB_OR_DATABASE", T("TRUE"))
    \o <<EndTag("ASSET"), StartTag("STIGS"), StartTag("iSTIG"),
         StartTag("STIG_INFO")>>
    \o Pair("SI_DATA", "SID_NAME", T("title"), "SID_DATA",
            <<"a", " ", "&", "amp;", " ", "b">>)
    \o Pair("SI_DATA", "SID_NAME", T("Version"), "SID_DATA", T("1"))
    \o <<EndTag("STIG_INFO"), StartTag("VULN")>>
    \o StigData("Vuln_Num", T("V-7"))
    \o StigData("Severity", T("high"))
    \o StigData("CCI_REF", T("CCI-000001"))
    \o StigData("CCI_REF", T("CCI-000002"))
    \o StigData("CCI_REF", T("CCI-000003"))
    \o <<StartTag("STATUS"), Chars(<<"Not", " ">>), Item("comment", "", <<>>),
         Chars(<<" ", "_Reviewed">>), EndTag("STATUS")>>
    \o Elem("COMMENTS", <<"&", "bogus">>)
    \o <<EndTag("VULN"), StartTag("VULN")>>
    \o StigData("Vuln_Num", T("V-8"))
    \o Elem("STATUS", T("Open"))
    \o Elem("SEVERITY_OVERRIDE", T("low"))
    \o <<EndTag("VULN"), EndTag("iSTIG"), EndTag("STIGS"),
         EndTag("CHECKLIST")>>

\* A file cut in the middle of a tag.
TruncatedDocument ==
    <<StartTag("CHECKLIST"), StartTag("ASSET")>>
    \o Elem("ROLE", T("None"))
    \o <<Item("bad", "", <<>>)>>

\* The checklist of the other tool, malformed after its two findings.
MalformedDocument ==
    SubSeq(ForeignDocument, 1, Len(ForeignDocument) - 3)
        \o <<Item("bad", "", <<>>)>>
        \o SubSeq(ForeignDocument, Len(ForeignDocument) - 2,
                  Len(ForeignDocument))

\* A well-formed file in which a finding block stands inside the asset
\* block.
NestedDocument ==
    <<StartTag("CHECKLIST"), StartTag("ASSET")>>
    \o Elem("ROLE", T("None"))
    \o <<StartTag("VULN")>>
    \o StigData("Vuln_Num", T("V-9"))
    \o Elem("STATUS", T("Open"))
    \o <<EndTag("VULN"), EndTag("ASSET"), EndTag("CHECKLIST")>>

SourceDocuments ==
    {generate_ckl_xml(c) : c \in SeedChecklists}
        \cup {ForeignDocument, TruncatedDocument, MalformedDocument,
              NestedDocument}

CodecInit ==
    /\ pc = "codec_input"
    /\ document \in SourceDocuments
    /\ parsed = None
    /\ xml = <<>>
    /\ reparsed = None
    /\ AggIdle
    /\ MergeIdle
    /\ CatalogIdle

\* parse_stig_checklist on the file
Parse ==
    /\ pc = "codec_input"
    /\ parsed' = ParseDocument(document)
    /\ pc' = "codec_parsed"
    /\ UNCHANGED <<document, xml, reparsed, aggVars, mergeVars,
                   catalogVars>>

\* export_updated_checklist: generate_ckl_xml on the parsed checklist
Export ==
    /\ pc = "codec_parsed"
    /\ IsOk(parsed)
    /\ xml' = generate_ckl_xml(parsed[2])
    /\ pc' = "codec_exported"
    /\ UNCHANGED <<document, parsed, reparsed, aggVars, mergeVars,
                   catalogVars>>

\* parse_stig_checklist on the exported file
Reparse ==
    /\ pc = "codec_exported"
    /\ reparsed' = ParseDocument(xml)
    /\ pc' = "codec_reparsed"
    /\ UNCHANGED <<document, parsed, xml, aggVars, mergeVars,
                   catalogVars>>

CodecNext == Parse \/ Export \/ Reparse

SpecCodec == CodecInit /\ [][CodecNext]_vars

(***************************************************************************)
(* SpecExport: the surrounding system hands a checklist structure to       *)
(* generate_ckl_xml (export_updated_checklist) and the written text is     *)
(* parsed.  The structures are those of SeedChecklists with reference      *)
(* lists that repeat an identifier; parsed holds the structure.            *)
(***************************************************************************)
ExportRefLists ==
    {<<>>, <<T("CCI-000001")>>, <<T("CCI-000001"), T("CCI-000001")>>,
     <<T("CCI-000002"), T("CCI-000001")>>,
     <<T("CCI-000001"), T("CCI-000002"), T("CCI-000001")>>}

ExportChoices == [cci_refs : ExportRefLists, override : BOOLEAN]

ExportChecklists ==
    {[asset |-> SeedAsset(t, web), stig_info |-> SeedStigInfo(t),
      vulnerabilities |->
         [i \in DOMAIN choices |-> SeedVuln(i, t, choices[i])]] :
        t \in Texts, web \in BOOLEAN,
        choices \in UNION {[1..n -> ExportChoices] : n \in 0..MaxSeedVulns}}

ExportInit ==
    /\ pc = "codec_parsed"
    /\ document = <<>>
    /\ parsed \in {Ok(c) : c \in ExportChecklists}
    /\ xml = <<>>
    /\ reparsed = None
    /\ AggIdle
    /\ MergeIdle
    /\ CatalogIdle

ExportNext == Export \/ Reparse

SpecExport == ExportInit /\ [][ExportNext]_vars


(***************************************************************************)
(* SpecMerge: parse_and_merge_stig_checklists on a list of paths into a    *)
(* file system that holds checklists of different hosts and benchmarks, a  *)
(* checklist without findings, a malformed file, and a path that cannot be *)
(* read.                                                                   *)
(***************************************************************************)
MaxPaths == 3

\* The finding blocks of a small checklist: a number and a status each.
RECURSIVE FindingBlocks(_)
FindingBlocks(findings) ==
    IF findings = <<>> THEN <<>>
    ELSE <<StartTag("VULN")>>
            \o StigData("Vuln_Num", T(Head(findings)[1]))
            \o StigData("Severity", T("medium"))
            \o Elem("STATUS", T(Head(findings)[2]))
            \o <<EndTag("VULN"), WS>>
            \o FindingBlocks(Tail(findings))

SmallDocument(host, title, findings) ==
    <<StartTag("CHECKLIST"), WS, StartTag("ASSET")>>
    \o Elem("HOST_NAME", T(host))
    \o <<EndTag("ASSET"), WS, StartTag("STIGS"), StartTag("iSTIG"),
         StartTag("STIG_INFO")>>
    \o Pair("SI_DATA", "SID_NAME", T("title"), "SID_DATA", T(title))
    \o <<EndTag("STIG_INFO"), WS>>
    \o FindingBlocks(findings)
    \o <<EndTag("iSTIG"), EndTag("STIGS"), EndTag("CHECKLIST")>>

Paths == {"a.ckl", "b.ckl", "none.ckl", "cut.ckl", "missing.ckl"}

\* fs::read_to_string: the text of the file, or None when the file cannot
\* be read.  The checklists a.ckl and b.ckl both hold a finding V-1.
FileSystem ==
    [path \in Paths |->
        CASE path = "a.ckl" ->
                Some(SmallDocument("alpha", "Benchmark A",
                                   <<<<"V-1", "Open">>>>))
          [] path = "b.ckl" ->
                Some(SmallDocument("beta", "Benchmark B",
                                   <<<<"V-1", "NotAFinding">>,
                                     <<"V-2", "Open">>>>))
          [] path = "none.ckl" ->
                Some(SmallDocument("gamma", "Benchmark C", <<>>))
          [] path = "cut.ckl" -> Some(TruncatedDocument)
          [] path = "missing.ckl" -> None]

PathLists == UNION {[1..n -> Paths] : n \in 0..MaxPaths}

\* parse_stig_checklist(path): `fs::read_to_string(&file_path)?` and the
\* parse of the text.
parse_stig_checklist(fs, path) ==
    IF fs[path] = None THEN Err(<<"Io">>) ELSE ParseDocument(fs[path][2])

NoFilesProvided_EmptySuccess ==
    Ok([asset |-> EmptyAsset, stig_info |-> EmptyStigInfo,
        vulnerabilities |-> <<>>])

\* return Err(StigError::InvalidFormat("No checklist files provided."))
NoFilesProvided == Err(<<"InvalidFormat", "No checklist files provided.">>)

Extend_KeepFirst(merged, checklist) == merged

\* merged.vulnerabilities.extend(checklist.vulnerabilities)
Extend(merged, checklist) ==
    [merged EXCEPT !.vulnerabilities = @ \o checklist.vulnerabilities]

\* The body of the loop on a checklist that parsed; position is the index
\* of enumerate(), which counts from 0.
Accumulate(merged, position, checklist) ==
    IF position = 0 THEN Some(checklist)
    ELSE IF merged # None THEN Some(Extend(merged[2], checklist))
    ELSE merged

\* merged_checklist.ok_or_else(|| InvalidFormat("Could not process any
\* checklist files."))
OkOrElse(merged) ==
    IF merged = None
    THEN Err(<<"InvalidFormat", "Could not process any checklist files.">>)
    ELSE Ok(merged[2])

MergeInit ==
    /\ pc = "merge_called"
    /\ files = FileSystem
    /\ file_paths \in PathLists
    /\ index = 0
    /\ merged_checklist = None
    /\ merge_result = None
    /\ parse_calls = <<>>
    /\ AggIdle
    /\ CodecIdle
    /\ CatalogIdle

\* if file_paths.is_empty() { return Err(..) }
RejectEmpty ==
    /\ pc = "merge_called"
    /\ file_paths = <<>>
    /\ merge_result' = NoFilesProvided
    /\ pc' = "merge_returned"
    /\ UNCHANGED <<files, file_paths, index, merged_checklist, parse_calls,
                   aggVars, codecVars, catalogVars>>

\* The list is not empty: the accumulator is declared and the loop entered.
EnterLoop ==
    /\ pc = "merge_called"
    /\ file_paths # <<>>
    /\ merged_checklist' = None
    /\ index' = 0
    /\ pc' = "merge_loop"
    /\ UNCHANGED <<files, file_paths, merge_result, parse_calls, aggVars,
                   codecVars, catalogVars>>

\* One turn of the loop: the file is parsed; `?` returns its error from the
\* merger, else the checklist is accumulated.
MergeFile ==
    /\ pc = "merge_loop"
    /\ index < Len(file_paths)
    /\ LET path == file_paths[index + 1]
           checklist == parse_stig_checklist(files, path)
       IN /\ parse_calls' = Append(parse_calls, path)
          /\ IF IsOk(checklist)
             THEN /\ merged_checklist' =
                        Accumulate(merged_checklist, index, checklist[2])
                  /\ index' = index + 1
                  /\ pc' = "merge_loop"
                  /\ UNCHANGED merge_result
             ELSE /\ merge_result' = checklist
                  /\ pc' = "merge_returned"
                  /\ UNCHANGED <<index, merged_checklist>>
    /\ UNCHANGED <<files, file_paths, aggVars, codecVars, catalogVars>>

\* The loop has run over all paths: the accumulator is returned.
ReturnMerged ==
    /\ pc = "merge_loop"
    /\ index = Len(file_paths)
    /\ merge_result' = OkOrElse(merged_checklist)
    /\ pc' = "merge_returned"
    /\ UNCHANGED <<files, file_paths, index, merged_checklist, parse_calls,
                   aggVars, codecVars, catalogVars>>

MergeNext == RejectEmpty \/ EnterLoop \/ MergeFile \/ ReturnMerged

SpecMerge == MergeInit /\ [][MergeNext]_vars

(***************************************************************************)
(* parse_cci_list.  The markup items of a catalog carry attributes: a      *)
(* sequence of <<key, value>> pairs, the value as it is written in the     *)
(* file.  An element written as <name .../> is an item of kind "empty", an *)
(* element written as <name ...></name> a start tag followed by an end tag.*)
(***************************************************************************)
Element(kind, name, attrs) ==
    [kind |-> kind, name |-> name, raw |-> <<>>, attrs |-> attrs]

\* e.attributes().find(|a| a.key == key) ... unwrap_or_default(), and the
\* loop over the attributes that stops at the first "id": the value of the
\* first attribute with the key, the empty string when there is none.
AttrValue(attrs, key) ==
    LET at == {i \in DOMAIN attrs : attrs[i][1] = key}
    IN IF at = {} THEN <<>>
       ELSE attrs[CHOOSE i \in at : \A j \in at : i <= j][2]

\* title.contains("NIST SP 800-53"): the words of the model that hold the
\* substring.
MentionsNist(title) ==
    \E i \in DOMAIN title : title[i] \in {"NIST SP 800-53", "NIST SP 800-53A"}

TitleLimit == 100

\* The texts of definitions are written character by character; "e-acute"
\* is a character that takes two bytes in UTF-8, every other one byte.
ByteLen(text) ==
    Len(text) + Cardinality({i \in DOMAIN text : text[i] = "e-acute"})

\* &definition[..n]: the characters in the first n bytes, or a panic when
\* byte n is inside a character.
IsCharBoundary(text, n) ==
    \E k \in 0..Len(text) : ByteLen(SubSeq(text, 1, k)) = n

Min(a, b) == IF a <= b THEN a ELSE b

\* definition.split('.').next(): the text before the first '.', the whole
\* text when it holds none.  split always yields a first piece.
FirstPiece(text) ==
    LET dots == {i \in DOMAIN text : text[i] = "."}
    IN IF dots = {} THEN text
       ELSE SubSeq(text, 1, (CHOOSE i \in dots : \A j \in dots : i <= j) - 1)

\* cci.definition.split('.').next().unwrap_or(&cci.definition[..min(100,
\* len)]): the argument of unwrap_or is evaluated before the call, the
\* value is always the first piece.  None stands for the panic of the slice.
DeriveTitle(definition) ==
    IF IsCharBoundary(definition, Min(TitleLimit, ByteLen(definition)))
    THEN Some(FirstPiece(definition))
    ELSE None

EmptyCci ==
    [id |-> <<>>, title |-> <<>>, definition |-> <<>>, nist_controls |-> <<>>,
     cci_type |-> <<>>, status |-> <<>>, publish_date |-> <<>>]

\* The locals of parse_cci_list before its loop, and the exit the loop has
\* taken (<<"panic">> when the thread panics).  (_in_cci_item is written and
\* never read.)
InitialCciParser ==
    [cci_mappings |-> <<>>, current_cci |-> None, current_element |-> "",
     current_text |-> <<>>, in_references |-> FALSE, exit |-> <<"none">>]

\* Ok(Event::Start(e))
CciOnStart(st, ev) ==
    LET s1 == [st EXCEPT !.current_element = ev.name]
        s2 == CASE ev.name = "cci_item" ->
                     [s1 EXCEPT !.current_cci =
                         Some([EmptyCci EXCEPT
                                  !.id = AttrValue(ev.attrs, "id")])]
                [] ev.name = "references" ->
                     [s1 EXCEPT !.in_references = TRUE]
                [] OTHER -> s1
    IN [s2 EXCEPT !.current_text = <<>>]

\* if title.contains(..) && !index.is_empty() { push the trimmed index when
\* it is not empty and not in the list }
AddNistControl(nist_controls, title, index_value) ==
    IF MentionsNist(title) /\ index_value # <<>>
    THEN LET clean_index == Trim(index_value)
         IN IF clean_index # <<>> /\ ~Contains(nist_controls, clean_index)
            THEN Append(nist_controls, clean_index)
            ELSE nist_controls
    ELSE nist_controls

\* Ok(Event::Empty(e))
CciOnEmpty(st, ev) ==
    IF ev.name = "reference" /\ st.in_references /\ st.current_cci # None
    THEN [st EXCEPT !.current_cci =
             Some([st.current_cci[2] EXCEPT
                      !.nist_controls =
                          AddNistControl(@, AttrValue(ev.attrs, "title"),
                                         AttrValue(ev.attrs, "index"))])]
    ELSE st

\* Ok(Event::Text(e))
CciOnText(st, raw) ==
    [st EXCEPT !.current_text = @ \o UnescapeOrDefault(raw)]

\* The first part of the End arm: match current_element.as_str(), the name
\* of the start tag read last.
AssignField(st) ==
    IF st.current_cci = None THEN st
    ELSE LET cci == st.current_cci[2]
             text == Trim(st.current_text)
         IN CASE st.current_element = "definition" ->
                    IF DeriveTitle(text) = None
                    THEN [st EXCEPT !.exit = <<"panic">>]
                    ELSE [st EXCEPT !.current_cci =
                             Some([cci EXCEPT !.definition = text,
                                              !.title = DeriveTitle(text)[2]])]
              [] st.current_element = "type" ->
                    [st EXCEPT !.current_cci =
                        Some([cci EXCEPT !.cci_type = text])]
              [] st.current_element = "status" ->
                    [st EXCEPT !.current_cci =
                        Some([cci EXCEPT !.status = text])]
              [] st.current_element = "publishdate" ->
                    [st EXCEPT !.current_cci =
                        Some([cci EXCEPT !.publish_date = text])]
              [] OTHER -> st

\* A faulty variant of CloseItem: the record is pushed whatever its id.
CloseItem_KeepAll(st, name) ==
    IF name = "cci_item"
    THEN IF st.current_cci # None
         THEN [st EXCEPT !.cci_mappings = Append(@, st.current_cci[2]),
                         !.current_cci = None]
         ELSE st
    ELSE IF name = "references" THEN [st EXCEPT !.in_references = FALSE]
    ELSE st

\* The second part of the End arm: current_cci.take() and the push of a
\* record whose id is not empty; the end of a references block.
CloseItem(st, name) ==
    IF name = "cci_item"
    THEN IF st.current_cci # None
         THEN [st EXCEPT
                 !.cci_mappings =
                     IF st.current_cci[2].id # <<>>
                     THEN Append(@, st.current_cci[2]) ELSE @,
                 !.current_cci = None]
         ELSE st
    ELSE IF name = "references" THEN [st EXCEPT !.in_references = FALSE]
    ELSE st

\* Ok(Event::End(e))
CciOnEnd(st, name) ==
    LET s1 == AssignField(st)
    IN IF s1.exit # <<"none">> THEN s1
       ELSE [CloseItem(s1, name) EXCEPT !.current_text = <<>>]

\* One turn of the loop of parse_cci_list.
CciParseEvent(st, ev) ==
    CASE ev.kind = "start" -> CciOnStart(st, ev)
      [] ev.kind = "empty" -> CciOnEmpty(st, ev)
      [] ev.kind = "text" -> CciOnText(st, ev.raw)
      [] ev.kind = "end" -> CciOnEnd(st, ev.name)
      [] ev.kind = "eof" -> [st EXCEPT !.exit = <<"eof">>]
      [] ev.kind = "err" -> [st EXCEPT !.exit = <<"err", ev.position>>]
      [] OTHER -> st

\* The turns of the loop on events[lo..hi], one after the other from lo to
\* hi, until the loop is left.
RECURSIVE CciParseEvents(_, _, _, _)
CciParseEvents(st, events, lo, hi) ==
    IF st.exit # <<"none">> \/ lo > hi THEN st
    ELSE IF lo = hi THEN CciParseEvent(st, events[lo])
    ELSE LET mid == (lo + hi) \div 2
         IN CciParseEvents(CciParseEvents(st, events, lo, mid), events,
                           mid + 1, hi)

Panic == <<"Panic">>

\* A faulty variant of CciResult: after an error of the reader the records
\* pushed so far are returned.
CciResult_PartialOnError(st) ==
    IF st.exit[1] = "panic" THEN Panic ELSE Ok(st.cci_mappings)

\* The exits of the loop of parse_cci_list: Eof returns the records, an
\* error of the reader returns XmlParsing and nothing else.
CciResult(st) ==
    IF st.exit[1] = "err" THEN XmlParsing(st.exit[2])
    ELSE IF st.exit[1] = "panic" THEN Panic
    ELSE Ok(st.cci_mappings)

\* parse_cci_list on the content of a file that could be read.
ParseCciDocument(doc) ==
    LET events == ReadEvents(doc)
    IN CciResult(CciParseEvents(InitialCciParser, events, 1, Len(events)))

(***************************************************************************)
(* SpecCatalog: parse_cci_list on a catalog file.  The files hold up to    *)
(* MaxItems items; an item has one of four forms of the id attribute and   *)
(* one of the bodies below; a file may be malformed after any of its       *)
(* items.                                                                  *)
(***************************************************************************)
MaxItems == 2

CciElem(name, raw) ==
    <<Element("start", name, <<>>), Chars(raw), Element("end", name, <<>>)>>

ReferenceAttrs(title, index_value) ==
    <<<<"creator", T("NIST")>>, <<"title", title>>,
      <<"index", index_value>>>>

\* <reference creator=".." title=".." index=".." />
Reference(title, index_value) ==
    <<Element("empty", "reference", ReferenceAttrs(title, index_value))>>

\* <reference creator=".." title=".." index=".."></reference>
PairedReference(title, index_value) ==
    <<Element("start", "reference", ReferenceAttrs(title, index_value)),
      Element("end", "reference", <<>>)>>

References(entries) ==
    <<Element("start", "references", <<>>)>> \o entries
        \o <<Element("end", "references", <<>>)>>

\* A definition of two sentences, one without a full stop, one of
\* TitleLimit + 1 characters without a full stop, and one whose byte
\* TitleLimit is the second byte of a character.
DefSentences == <<"a", "b", ".", "c", ".">>

DefShort == <<"a", " ", "b">>

DefLong == [i \in 1..(TitleLimit + 1) |-> "x"]

DefAccent ==
    [i \in 1..(TitleLimit + 1) |-> IF i = TitleLimit THEN "e-acute" ELSE "x"]

\* The children in the order of the published catalog, with references of
\* three NIST titles, a repeated index, another publisher, an empty index
\* and an index of white space.
BodyPublished ==
    CciElem("status", T("draft"))
    \o CciElem("publishdate", T("2009-05-13"))
    \o CciElem("contributor", T("DISA"))
    \o CciElem("type", <<" ", "policy", " ">>)
    \o CciElem("definition", DefSentences)
    \o References(
          Reference(<<"NIST SP 800-53">>, T("AC-2"))
          \o Reference(<<"NIST SP 800-53", " ", "Revision 4">>,
                       <<" ", "AC-2", " ">>)
          \o Reference(<<"NIST SP 800-53A">>, T("SI-4"))
          \o Reference(<<"DoD 8500.2">>, T("X-1"))
          \o Reference(<<"NIST SP 800-53">>, <<>>)
          \o Reference(<<"NIST SP 800-53">>, <<" ">>))

\* A references block with an entry written as a pair of tags.
BodyPaired ==
    CciElem("definition", DefShort)
    \o References(
          PairedReference(<<"NIST SP 800-53">>, T("AC-10"))
          \o Reference(<<"NIST SP 800-53">>, T("AC-2")))

\* No references block: the definition is the last child of the item.
BodyDefinitionLast ==
    CciElem("type", T("technical"))
    \o CciElem("status", T("draft"))
    \o CciElem("publishdate", T("2010-01-01"))
    \o CciElem("definition", DefSentences)

\* The references block comes first and the status last.
BodyStatusLast ==
    References(Reference(<<"NIST SP 800-53">>, T("SI-4")))
    \o CciElem("definition", DefShort)
    \o CciElem("status", T("deprecated"))

\* A reference outside the references block, a long definition, and an
\* empty references block.
BodyOutside ==
    Reference(<<"NIST SP 800-53">>, T("AC-2"))
    \o CciElem("definition", DefLong)
    \o References(<<>>)

BodyAccent ==
    CciElem("definition", DefAccent)
    \o References(Reference(<<"NIST SP 800-53">>, T("AC-2")))

Bodies ==
    {BodyPublished, BodyPaired, BodyDefinitionLast, BodyStatusLast,
     BodyOutside, BodyAccent, <<>>}

\* The attributes of an item: no id, an empty id, an id, and an id that
\* follows another attribute.
IdAttrs ==
    {<<>>, <<<<"id", <<>>>>>>, <<<<"id", T("CCI-000001")>>>>,
     <<<<"version", T("1")>>, <<"id", T("CCI-000002")>>>>}

CciItem(attrs, body) ==
    <<Element("start", "cci_item", attrs)>> \o body
        \o <<Element("end", "cci_item", <<>>), WS>>

CciItems == {CciItem(attrs, body) : attrs \in IdAttrs, body \in Bodies}

RECURSIVE Flatten(_)
Flatten(seqs) == IF seqs = <<>> THEN <<>> ELSE Head(seqs) \o Flatten(Tail(seqs))

\* A catalog file with the items given; cut = 0 for a well-formed file,
\* cut = k for a file that is malformed right after its first k - 1 items.
CatalogDocument(items, cut) ==
    <<Item("decl", "xml", <<>>), Element("start", "cci_list", <<>>), WS,
      Element("start", "metadata", <<>>)>>
    \o CciElem("publishdate", T("2024-01-01"))
    \o <<Element("end", "metadata", <<>>), WS,
         Element("start", "cci_items", <<>>), WS>>
    \o (IF cut = 0 THEN Flatten(items)
        ELSE Flatten(SubSeq(items, 1, cut - 1)) \o <<Item("bad", "", <<>>)>>
                \o Flatten(SubSeq(items, cut, Len(items))))
    \o <<Element("end", "cci_items", <<>>), Element("end", "cci_list", <<>>)>>

CatalogDocuments ==
    {CatalogDocument(items, cut) :
        <<items, cut>> \in
            UNION {{<<i, c>> : i \in [1..n -> CciItems], c \in 0..(n + 1)} :
                      n \in 0..MaxItems}}

CatalogInit ==
    /\ pc = "catalog_input"
    /\ cci_document \in CatalogDocuments
    /\ cci_list = None
    /\ AggIdle
    /\ CodecIdle
    /\ MergeIdle

\* parse_cci_list on the file
ParseCciList ==
    /\ pc = "catalog_input"
    /\ cci_list' = ParseCciDocument(cci_document)
    /\ pc' = "catalog_parsed"
    /\ UNCHANGED <<cci_document, aggVars, codecVars, mergeVars>>

CatalogNext == ParseCciList

SpecCatalog == CatalogInit /\ [][CatalogNext]_vars

ParsersInit == CodecInit \/ CatalogInit

ParsersNext == CodecNext \/ CatalogNext

SpecParsers == ParsersInit /\ [][ParsersNext]_vars

CodecReparsed == pc = "codec_reparsed"

\* The fields of a finding that the round trip is stated for.
RoundTripVulnFields ==
    {"vuln_num", "severity", "group_title", "rule_id", "rule_ver",
     "rule_title", "vuln_discuss", "check_content", "fix_text", "cci_refs",
     "status", "finding_details", "comments", "severity_override",
     "severity_justification"}

\* C4: for a checklist C that parse_stig_checklist returned, parsing the
\* text generate_ckl_xml writes for C succeeds and gives a checklist equal
\* to C in the asset, in the benchmark metadata and, finding by finding in
\* the same order, in every field of the finding that the format carries.
C4_RoundTrip ==
    CodecReparsed =>
        /\ IsOk(reparsed)
        /\ reparsed[2].asset = parsed[2].asset
        /\ reparsed[2].stig_info = parsed[2].stig_info
        /\ Len(reparsed[2].vulnerabilities) = Len(parsed[2].vulnerabilities)
        /\ \A i \in DOMAIN parsed[2].vulnerabilities :
              \A f \in RoundTripVulnFields :
                  reparsed[2].vulnerabilities[i][f]
                     = parsed[2].vulnerabilities[i][f]

\* A round trip of a checklist with two findings, characters that the
\* serializer escapes, a reference, and a severity override.
C4_Witness ==
    /\ CodecReparsed
    /\ "<" \in Range(parsed[2].asset.role)
    /\ Len(parsed[2].vulnerabilities) = 2
    /\ \E i \in DOMAIN parsed[2].vulnerabilities :
          /\ parsed[2].vulnerabilities[i].cci_refs # <<>>
          /\ parsed[2].vulnerabilities[i].severity_override # None

\* The members of a set of positions, in ascending order.
Ascending(S) ==
    [k \in 1..Cardinality(S) |->
        CHOOSE x \in S : Cardinality({y \in S : y < x}) = k - 1]

\* The finding blocks of a tag stream: the position of every VULN start tag
\* with the position of the VULN end tag that closes it.
VulnBlocks(events) ==
    LET starts == {i \in DOMAIN events : events[i] = StartTag("VULN")}
        ends == {i \in DOMAIN events : events[i] = EndTag("VULN")}
        Close(s) == CHOOSE e \in ends : e > s /\ \A x \in ends : x > s => e <= x
    IN [k \in 1..Cardinality(starts) |->
           <<Ascending(starts)[k], Close(Ascending(starts)[k])>>]

\* The values of the key/value pairs named CCI_REF between two positions of
\* a tag stream, in document order.
CciRefPairs(events, from, to) ==
    LET at == {i \in from..(to - 5) :
                  /\ events[i] = StartTag("VULN_ATTRIBUTE")
                  /\ events[i + 1] = Chars(T("CCI_REF"))
                  /\ events[i + 2] = EndTag("VULN_ATTRIBUTE")
                  /\ events[i + 3] = StartTag("ATTRIBUTE_DATA")
                  /\ events[i + 4].kind = "text"
                  /\ events[i + 5] = EndTag("ATTRIBUTE_DATA")}
    IN [k \in 1..Cardinality(at) |->
           UnescapeOrDefault(events[Ascending(at)[k] + 4].raw)]

\* C5: when a finding block of the document holds two or more key/value
\* pairs named CCI_REF, the finding that parse_stig_checklist returns for
\* the block lists all their values in cci_refs, in document order.
C5_AllCciRefsKept ==
    (pc = "codec_parsed" /\ IsOk(parsed)) =>
        LET events == ReadEvents(document)
            blocks == VulnBlocks(events)
        IN \A n \in DOMAIN blocks :
              LET pairs == CciRefPairs(events, blocks[n][1], blocks[n][2])
              IN Len(pairs) >= 2 =>
                    parsed[2].vulnerabilities[n].cci_refs = pairs


\* The benchmark-metadata block of a tag stream: the positions of the first
\* STIG_INFO start tag and of the end tag that closes it (<<1, 0>> when the
\* stream has no such block).
StigInfoBlock(events) ==
    LET starts == {i \in DOMAIN events : events[i] = StartTag("STIG_INFO")}
        s == CHOOSE i \in starts : \A x \in starts : i <= x
        ends == {i \in DOMAIN events :
                    events[i] = EndTag("STIG_INFO") /\ i > s}
    IN IF starts = {} \/ ends = {} THEN <<1, 0>>
       ELSE <<s, CHOOSE e \in ends : \A x \in ends : e <= x>>

\* The name/data pairs between two positions of a tag stream, in document
\* order; the data of a pair whose data element is empty is the empty text.
SiPairs(events, from, to) ==
    LET at == {i \in from..(to - 4) :
                  /\ events[i] = StartTag("SID_NAME")
                  /\ events[i + 1].kind = "text"
                  /\ events[i + 2] = EndTag("SID_NAME")
                  /\ events[i + 3] = StartTag("SID_DATA")
                  /\ \/ events[i + 4] = EndTag("SID_DATA")
                     \/ /\ events[i + 4].kind = "text"
                        /\ events[i + 5] = EndTag("SID_DATA")}
        Data(i) == IF events[i + 4].kind = "text"
                   THEN UnescapeOrDefault(events[i + 4].raw) ELSE <<>>
    IN [k \in 1..Cardinality(at) |->
           <<UnescapeOrDefault(events[Ascending(at)[k] + 1].raw),
             Data(Ascending(at)[k])>>]

\* The lowercase form of the names of the model.
LowerCaseName(name) ==
    CASE name = T("Version") -> T("version")
      [] name = T("StigID") -> T("stigid")
      [] name = T("ReleaseInfo") -> T("releaseinfo")
      [] OTHER -> name

\* The lookup table of the pairs, keyed by the lowercase form of the name.
RECURSIVE LowerCaseTable(_, _)
LowerCaseTable(pairs, map) ==
    IF pairs = <<>> THEN map
    ELSE LowerCaseTable(Tail(pairs),
            MapInsert(map, LowerCaseName(Head(pairs)[1]), Head(pairs)[2]))

\* C18: every name/data pair of the benchmark-metadata block is stored
\* under the lowercase form of its name, so the eleven fields hold the data
\* of the pairs whose name is the field's key in any letter case, and the
\* empty string when the block has no such pair.
C18_LowercaseKeys ==
    (pc = "codec_parsed" /\ IsOk(parsed)) =>
        LET events == ReadEvents(document)
            block == StigInfoBlock(events)
        IN parsed[2].stig_info =
              ProjectStigInfo(
                  LowerCaseTable(SiPairs(events, block[1], block[2]),
                                 EmptyMap))

MergeReturned == pc = "merge_returned"

\* What parse_stig_checklist returns for the file at a position of the list.
ParseOf(i) == parse_stig_checklist(files, file_paths[i])

\* C7: when the list of paths is not empty and its first file parses, the
\* merger returns a merged checklist, whatever the later files are.
C7_FailsOnlyOnFirstFile ==
    (MergeReturned /\ file_paths # <<>> /\ IsOk(ParseOf(1))) =>
        IsOk(merge_result)

\* C8: called with an empty list of paths the merger returns the error
\* InvalidFormat, no checklist, and has parsed no file.
C8_EmptyListIsAnError ==
    (MergeReturned /\ file_paths = <<>>) =>
        /\ ~IsOk(merge_result)
        /\ merge_result[2][1] = "InvalidFormat"
        /\ parse_calls = <<>>
        /\ merged_checklist = None

C8_Witness == MergeReturned /\ file_paths = <<>> /\ ~IsOk(merge_result)

\* The findings of the documents at positions i..Len(file_paths), appended
\* in the order of the list.
RECURSIVE FindingsFrom(_)
FindingsFrom(i) ==
    IF i > Len(file_paths) THEN <<>>
    ELSE ParseOf(i)[2].vulnerabilities \o FindingsFrom(i + 1)

\* C9: when every file of a list that is not empty parses, the merger
\* returns the asset and the benchmark metadata of the first document and
\* the findings of all documents, appended in the order of the list.
C9_FirstMetadataAllFindings ==
    (MergeReturned /\ file_paths # <<>>
        /\ \A i \in DOMAIN file_paths : IsOk(ParseOf(i))) =>
        /\ IsOk(merge_result)
        /\ merge_result[2].asset = ParseOf(1)[2].asset
        /\ merge_result[2].stig_info = ParseOf(1)[2].stig_info
        /\ merge_result[2].vulnerabilities = FindingsFrom(1)

\* Three documents with different hosts, two of which hold a finding V-1.
C9_Witness ==
    /\ MergeReturned
    /\ file_paths = <<"b.ckl", "a.ckl", "b.ckl">>
    /\ IsOk(merge_result)
    /\ Len(merge_result[2].vulnerabilities) = 5
    /\ merge_result[2].asset.host_name = T("beta")

CatalogParsed == pc = "catalog_parsed"

IsTag(ev, kind, name) == ev.kind = kind /\ ev.name = name

\* The items of a catalog tag stream: the position of every cci_item start
\* tag with the position of the end tag that closes it.
ItemBlocks(events) ==
    LET starts == {i \in DOMAIN events : IsTag(events[i], "start", "cci_item")}
        ends == {i \in DOMAIN events : IsTag(events[i], "end", "cci_item")}
        Close(s) == CHOOSE e \in ends : e > s /\ \A x \in ends : x > s => e <= x
    IN [k \in 1..Cardinality(starts) |->
           <<Ascending(starts)[k], Close(Ascending(starts)[k])>>]

\* The items whose start tag carries an id that is not empty, in document
\* order.
ItemsWithId(events) ==
    LET HasId(block) == AttrValue(events[block[1]].attrs, "id") # <<>>
    IN SelectSeq(ItemBlocks(events), HasId)

\* What parse_cci_list returns for a file that holds one item and nothing
\* else.
AloneResult(events, block) ==
    ParseCciDocument(SubSeq(events, block[1], block[2]))

WellFormed(doc) == \A i \in DOMAIN doc : doc[i].kind # "bad"

InReferences(events, i) ==
    \E a \in 1..(i - 1) :
        /\ IsTag(events[a], "start", "references")
        /\ \A b \in (a + 1)..(i - 1) : ~IsTag(events[b], "end", "references")

\* A list without the repetitions of its values: each value stays where it
\* occurs first.
Dedup(seq) ==
    LET first == {i \in DOMAIN seq : \A j \in 1..(i - 1) : seq[j] # seq[i]}
    IN [k \in 1..Cardinality(first) |-> seq[Ascending(first)[k]]]

\* The trimmed index values of the cross-reference entries of an item that
\* lie inside a references block, name NIST SP 800-53 in their title and
\* carry an index, in document order.
NistIndexes(events, block) ==
    LET at == {i \in block[1]..block[2] :
                  /\ events[i].kind \in {"empty", "start"}
                  /\ events[i].name = "reference"
                  /\ InReferences(events, i)
                  /\ MentionsNist(AttrValue(events[i].attrs, "title"))
                  /\ Trim(AttrValue(events[i].attrs, "index")) # <<>>}
    IN [k \in 1..Cardinality(at) |->
           Trim(AttrValue(events[Ascending(at)[k]].attrs, "index"))]

\* C15: the nist_controls of every record are the trimmed index values of
\* the cross-reference entries inside the references block of its item
\* whose title contains "NIST SP 800-53" and whose index is not empty, each
\* value once, in the order of first occurrence.
C15_NistControls ==
    (CatalogParsed /\ IsOk(cci_list)) =>
        LET events == ReadEvents(cci_document)
            kept == ItemsWithId(events)
        IN \A k \in DOMAIN kept :
              k \in DOMAIN cci_list[2] =>
                  cci_list[2][k].nist_controls
                     = Dedup(NistIndexes(events, kept[k]))

\* C19: the title of every record is the text of its definition before the
\* first full stop, and the first TitleLimit characters of the definition
\* when the definition holds no full stop.
C19_DerivedTitle ==
    (CatalogParsed /\ IsOk(cci_list)) =>
        \A k \in DOMAIN cci_list[2] :
            LET cci == cci_list[2][k]
            IN IF "." \in Range(cci.definition)
               THEN cci.title = FirstPiece(cci.definition)
               ELSE cci.title =
                       SubSeq(cci.definition, 1,
                              Min(TitleLimit, Len(cci.definition)))

\* The trimmed text of the child element of an item with the name given;
\* the empty text when the item has no such child.
ChildText(events, block, name) ==
    LET at == {i \in block[1]..block[2] : IsTag(events[i], "start", name)}
        last == CHOOSE i \in at : \A j \in at : j <= i
    IN IF at = {} THEN <<>>
       ELSE IF events[last + 1].kind = "text"
            THEN Trim(UnescapeOrDefault(events[last + 1].raw))
            ELSE <<>>

\* C20: definition, cci_type, status and publish_date of every record are
\* the trimmed texts of the children definition, type, status and
\* publishdate of its item, in whatever order the children stand and
\* whichever child is the last one before the end tag of the item.
C20_FieldsFromChildren ==
    (CatalogParsed /\ IsOk(cci_list)) =>
        LET events == ReadEvents(cci_document)
            kept == ItemsWithId(events)
        IN \A k \in DOMAIN kept :
              k \in DOMAIN cci_list[2] =>
                  /\ cci_list[2][k].definition
                        = ChildText(events, kept[k], "definition")
                  /\ cci_list[2][k].cci_type
                        = ChildText(events, kept[k], "type")
                  /\ cci_list[2][k].status
                        = ChildText(events, kept[k], "status")
                  /\ cci_list[2][k].publish_date
                        = ChildText(events, kept[k], "publishdate")

\* The number of markup items of a malformed document that precede its
\* first malformed item.
ItemsBeforeError(doc) ==
    (CHOOSE i \in DOMAIN doc :
        doc[i].kind = "bad" /\ \A j \in 1..(i - 1) : doc[j].kind # "bad") - 1

\* C16: when the reader of parse_cci_list or of parse_stig_checklist comes
\* upon malformed markup, the call returns the XmlParsing error with the
\* position of the reader, and with it none of the records or findings of
\* the part of the document before the error.
C16_NoPartialResult ==
    /\ (CatalogParsed /\ ~WellFormed(cci_document) /\ cci_list # Panic) =>
           cci_list = XmlParsing(ItemsBeforeError(cci_document))
    /\ (pc = "codec_parsed" /\ ~WellFormed(document)) =>
           parsed = XmlParsing(ItemsBeforeError(document))
    /\ (pc = "codec_reparsed" /\ ~WellFormed(xml)) =>
           reparsed = XmlParsing(ItemsBeforeError(xml))

\* A catalog that is malformed after a complete item with an id, so that a
\* record had been pushed when the reader failed.
C16_Witness ==
    /\ CatalogParsed
    /\ ~IsOk(cci_list)
    /\ cci_list # Panic
    /\ LET events == ReadEvents(cci_document)
       IN /\ Len(ItemBlocks(events)) = 1
          /\ Len(ItemsWithId(events)) = 1
          /\ ItemBlocks(events)[1][2] < Len(events)

(***************************************************************************)
(* Membership of the findings in the mapped controls.                      *)
(***************************************************************************)
MemberNums(mc) == {mc.stigs[a].vuln_num : a \in DOMAIN mc.stigs}

\* C23: in every mapped control no two member findings share a finding
\* number, and the number of every finding correlated to the control is
\* listed, once, however many references lead the finding to the control.
C23_MembersOncePerNumber ==
    AggDone =>
        \A c \in DOMAIN mapped_controls :
            LET mc == mapped_controls[c]
                on == CorrelatedVulns(vulnerabilities, mc.nist_control)
            IN /\ \A a, b \in DOMAIN mc.stigs :
                      mc.stigs[a].vuln_num = mc.stigs[b].vuln_num => a = b
               /\ MemberNums(mc) = {vulnerabilities[i].vuln_num : i \in on}

\* One finding that reaches AC-2 through two correlation identifiers, and
\* one that reaches it twice through the same identifier.
C23_Witness ==
    /\ AggDone
    /\ Len(vulnerabilities) = 2
    /\ vulnerabilities[1].cci_refs = <<"CCI-000001", "CCI-000002">>
    /\ vulnerabilities[2].cci_refs = <<"CCI-000001", "CCI-000001">>
    /\ Contains(CatalogControls("CCI-000001"), "AC-2")
    /\ Contains(CatalogControls("CCI-000002"), "AC-2")
    /\ \E c \in DOMAIN mapped_controls :
          /\ mapped_controls[c].nist_control = "AC-2"
          /\ mapped_controls[c].stigs = vulnerabilities

\* C24: a finding whose correlation identifiers lead to k controls is a
\* member, with all its field values, of each of the k mapped controls.
C24_SharedAcrossControls ==
    AggDone =>
        \A i \in DOMAIN vulnerabilities :
            \A n \in Controls :
                Correlated(vulnerabilities[i], n) =>
                    \E c \in DOMAIN mapped_controls :
                        /\ mapped_controls[c].nist_control = n
                        /\ Contains(mapped_controls[c].stigs,
                                    vulnerabilities[i])

\* C28: the compliance verdict and the risk verdict of every mapped control
\* are those the priority rules give for the findings listed in the stigs
\* of the control.
C28_VerdictsOfOwnMembers ==
    AggDone =>
        \A c \in DOMAIN mapped_controls :
            LET mc == mapped_controls[c]
            IN /\ mc.compliance_status =
                     PriorityVerdict({mc.stigs[a].status : a \in DOMAIN mc.stigs})
               /\ mc.risk_level =
                     MaxSeverity({mc.stigs[a].severity : a \in DOMAIN mc.stigs})

\* C29: a control is in the output exactly when a finding refers to a
\* correlation identifier whose catalog record lists the control; every
\* mapped control has members and identifiers, each identifier is one the
\* catalog maps to the control, and every member has a reference that the
\* catalog maps to the control.
C29_ControlsOfCorrelatedFindings ==
    AggDone =>
        /\ \A n \in Controls :
              (\E c \in DOMAIN mapped_controls :
                   mapped_controls[c].nist_control = n)
                 <=> CorrelatedVulns(vulnerabilities, n) # {}
        /\ \A c \in DOMAIN mapped_controls :
              LET mc == mapped_controls[c]
              IN /\ mc.nist_control \in Controls
                 /\ mc.ccis # <<>>
                 /\ mc.stigs # <<>>
                 /\ \A a \in DOMAIN mc.ccis :
                       /\ \E r \in DOMAIN cci_mappings :
                             cci_mappings[r].id = mc.ccis[a]
                       /\ Contains(CatalogControls(mc.ccis[a]),
                                   mc.nist_control)
                 /\ \A a \in DOMAIN mc.stigs :
                       /\ Contains(vulnerabilities, mc.stigs[a])
                       /\ Correlated(mc.stigs[a], mc.nist_control)

\* A finding whose identifier the catalog maps to two controls next to a
\* finding whose identifier the catalog maps to none: the first is the only
\* member of both controls.
C29_Witness ==
    /\ AggDone
    /\ Len(vulnerabilities) = 2
    /\ vulnerabilities[1].cci_refs = <<"CCI-000001">>
    /\ vulnerabilities[2].cci_refs = <<"CCI-000002">>
    /\ CatalogControls("CCI-000001") = <<"SI-4", "AC-10">>
    /\ CatalogControls("CCI-000002") = <<>>
    /\ Len(mapped_controls) = 2
    /\ \A c \in DOMAIN mapped_controls :
          mapped_controls[c].stigs = <<vulnerabilities[1]>>

\* The records of the catalog that carry an identifier.
RecordsOf(id) == {r \in DOMAIN cci_mappings : cci_mappings[r].id = id}

LastRecordOf(id) == CHOOSE r \in RecordsOf(id) : \A x \in RecordsOf(id) : x <= r

RepeatedIds == {id \in CCIs : Cardinality(RecordsOf(id)) > 1}

\* C30: when several records of the catalog carry the same identifier, a
\* finding that refers to the identifier brings it to the controls of the
\* last of these records and to no other control: the controls that only
\* earlier records list do not receive the identifier.
C30_LastRecordWins ==
    AggDone =>
        \A id \in RepeatedIds :
            \A n \in Controls :
                (\E c \in DOMAIN mapped_controls :
                    /\ mapped_controls[c].nist_control = n
                    /\ Contains(mapped_controls[c].ccis, id))
                  <=> (/\ \E i \in DOMAIN vulnerabilities :
                             Contains(vulnerabilities[i].cci_refs, id)
                       /\ Contains(cci_mappings[LastRecordOf(id)].nist_controls,
                                   n))

\* The catalog that lists CCI-000001 twice, with AC-2 and then with AC-10,
\* and a finding that refers to CCI-000001: AC-10 is the only control.
C30_Witness ==
    /\ AggDone
    /\ RepeatedIds = {"CCI-000001"}
    /\ Len(vulnerabilities) = 1
    /\ vulnerabilities[1].cci_refs = <<"CCI-000001">>
    /\ Len(mapped_controls) = 1
    /\ mapped_controls[1].nist_control = "AC-10"
    /\ mapped_controls[1].stigs = vulnerabilities

(***************************************************************************)
(* The contexts of the checklist parser along its scan.                    *)
(***************************************************************************)
\* in_asset, in_stig_info, in_vuln and whether current_vuln is Some.
Contexts(st) ==
    <<st.in_asset, st.in_stig_info, st.in_vuln, st.current_vuln # None>>

\* The turns of the loop of parse_stig_checklist on events[lo..hi], with
\* the contexts after every turn collected in acc.seen.
RECURSIVE ScanContexts(_, _, _, _)
ScanContexts(acc, events, lo, hi) ==
    IF acc.st.exit # <<"none">> \/ lo > hi THEN acc
    ELSE IF lo = hi
         THEN LET next == ParseEvent(acc.st, events[lo])
              IN [st |-> next, seen |-> acc.seen \cup {Contexts(next)}]
    ELSE LET mid == (lo + hi) \div 2
         IN ScanContexts(ScanContexts(acc, events, lo, mid), events,
                         mid + 1, hi)

ContextsSeen(doc) ==
    LET events == ReadEvents(doc)
    IN ScanContexts([st |-> InitialParser,
                     seen |-> {Contexts(InitialParser)}],
                    events, 1, Len(events)).seen

\* C22: at every point of the scan of a well-formed checklist file at most
\* one of in_asset, in_stig_info and in_vuln is set, and current_vuln holds
\* a finding exactly while in_vuln is set.
C22_ExclusiveContexts ==
    (pc = "codec_parsed" /\ WellFormed(document)) =>
        \A f \in ContextsSeen(document) :
            /\ Cardinality({k \in 1..3 : f[k]}) <= 1
            /\ f[4] <=> f[3]

(***************************************************************************)
(* What the claims about the serializer speak of.                          *)
(***************************************************************************)
Exported == pc \in {"codec_exported", "codec_reparsed"}

\* The names of the start tags of a text, in the order of the text.
StartNames(items) ==
    LET IsStart(item) == item.kind = "start"
        tags == SelectSeq(items, IsStart)
    IN [k \in DOMAIN tags |-> tags[k].name]

\* The character data that follows the start tags of the name given, in the
\* order of the text.
ContentOf(items, name) ==
    LET at == [i \in DOMAIN items |-> <<i, items[i]>>]
        Opens(e) == e[2] = StartTag(name)
        opens == SelectSeq(at, Opens)
    IN [k \in DOMAIN opens |-> items[opens[k][1] + 1].raw]

\* The data of the key/value pairs of the finding blocks whose key is the
\* word given, in the order of the text.
PairValues(items, word) ==
    LET keys == ContentOf(items, "VULN_ATTRIBUTE")
        data == ContentOf(items, "ATTRIBUTE_DATA")
        both == [k \in DOMAIN keys |-> <<keys[k], data[k]>>]
        Named(e) == e[1] = T(word)
        named == SelectSeq(both, Named)
    IN [k \in DOMAIN named |-> named[k][2]]

RECURSIVE Repeat(_, _)
Repeat(seq, n) == IF n = 0 THEN <<>> ELSE seq \o Repeat(seq, n - 1)

AssetFields ==
    <<"ROLE", "ASSET_TYPE", "MARKING", "HOST_NAME", "HOST_IP", "HOST_MAC",
      "HOST_FQDN", "TARGET_COMMENT", "TECH_AREA", "TARGET_KEY",
      "WEB_OR_DATABASE", "WEB_DB_SITE", "WEB_DB_INSTANCE">>

BenchmarkKeys ==
    <<"version", "classification", "customname", "stigid", "description",
      "filename", "releaseinfo", "title", "uuid", "notice", "source">>

FixedAttributes ==
    <<"Vuln_Num", "Severity", "Group_Title", "Rule_ID", "Rule_Ver",
      "Rule_Title", "Vuln_Discuss", "IA_Controls", "Check_Content",
      "Fix_Text", "False_Positives", "False_Negatives", "Documentable",
      "Mitigations", "Potential_Impact", "Third_Party_Tools",
      "Mitigation_Control", "Responsibility", "Security_Override_Guidance",
      "Check_Content_Ref", "Weight", "Class", "STIGRef", "TargetKey",
      "STIG_UUID", "LEGACY_ID">>

DirectChildren ==
    <<"STATUS", "FINDING_DETAILS", "COMMENTS", "SEVERITY_OVERRIDE",
      "SEVERITY_JUSTIFICATION">>

\* The elements of one finding block, and the keys of its pairs.
FindingTags(vuln) ==
    <<"VULN">>
    \o Repeat(<<"STIG_DATA", "VULN_ATTRIBUTE", "ATTRIBUTE_DATA">>,
              Len(FixedAttributes) + Len(vuln.cci_refs))
    \o DirectChildren

FindingKeys(vuln) ==
    [k \in DOMAIN FixedAttributes |-> T(FixedAttributes[k])]
        \o [k \in DOMAIN vuln.cci_refs |-> T("CCI_REF")]

RECURSIVE OverFindings(_, _)
OverFindings(vulns, kind) ==
    IF vulns = <<>> THEN <<>>
    ELSE (CASE kind = "tags" -> FindingTags(Head(vulns))
            [] kind = "keys" -> FindingKeys(Head(vulns))
            [] kind = "refs" -> Head(vulns).cci_refs
            [] kind = "nums" -> <<Head(vulns).vuln_num>>)
         \o OverFindings(Tail(vulns), kind)

\* C25: the text generate_ckl_xml writes holds, in this order and whatever
\* the data: the asset block with its 13 fields, the eleven benchmark pairs
\* version .. source, and one finding block per finding in list order, each
\* with the 26 fixed pairs from Vuln_Num on, one CCI_REF pair per entry of
\* cci_refs in list order with its repetitions, then STATUS,
\* FINDING_DETAILS, COMMENTS, SEVERITY_OVERRIDE, SEVERITY_JUSTIFICATION.
C25_FixedElementOrder ==
    Exported =>
        LET checklist == parsed[2]
            vulns == checklist.vulnerabilities
        IN /\ StartNames(xml) =
                 <<"CHECKLIST", "ASSET">> \o AssetFields
                 \o <<"STIGS", "iSTIG", "STIG_INFO">>
                 \o Repeat(<<"SI_DATA", "SID_NAME", "SID_DATA">>,
                           Len(BenchmarkKeys))
                 \o OverFindings(vulns, "tags")
           /\ ContentOf(xml, "SID_NAME") =
                 [k \in DOMAIN BenchmarkKeys |-> T(BenchmarkKeys[k])]
           /\ ContentOf(xml, "VULN_ATTRIBUTE") = OverFindings(vulns, "keys")
           /\ PairValues(xml, "CCI_REF") = OverFindings(vulns, "refs")
           /\ PairValues(xml, "Vuln_Num") = OverFindings(vulns, "nums")

\* Two findings written out, the first with three references of which one
\* is repeated, the second with two.
C25_Witness ==
    /\ pc = "codec_exported"
    /\ Len(parsed[2].vulnerabilities) = 2
    /\ parsed[2].vulnerabilities[1].cci_refs =
          <<T("CCI-000001"), T("CCI-000002"), T("CCI-000001")>>
    /\ parsed[2].vulnerabilities[2].cci_refs =
          <<T("CCI-000002"), T("CCI-000001")>>
    /\ PairValues(xml, "CCI_REF") =
          <<T("CCI-000001"), T("CCI-000002"), T("CCI-000001"),
            T("CCI-000002"), T("CCI-000001")>>

\* C26: in every finding block of the written text the value of STIGRef is
\* the benchmark title, " :: " and the release info, and the value of
\* TargetKey is the target key of the asset, whatever the finding.
C26_StigRefAndTargetKey ==
    Exported =>
        LET checklist == parsed[2]
            refs == PairValues(xml, "STIGRef")
            keys == PairValues(xml, "TargetKey")
        IN /\ Len(refs) = Len(checklist.vulnerabilities)
           /\ Len(keys) = Len(checklist.vulnerabilities)
           /\ \A k \in DOMAIN refs :
                 UnescapeOrDefault(refs[k]) =
                    checklist.stig_info.title \o <<" ", "::", " ">>
                        \o checklist.stig_info.release_info
           /\ \A k \in DOMAIN keys :
                 UnescapeOrDefault(keys[k]) = checklist.asset.target_key

\* Two findings that differ in their references and overrides, of a
\* benchmark with a title and a release info.
C26_Witness ==
    /\ pc = "codec_exported"
    /\ Len(parsed[2].vulnerabilities) = 2
    /\ parsed[2].vulnerabilities[1].cci_refs
          # parsed[2].vulnerabilities[2].cci_refs
    /\ parsed[2].vulnerabilities[1].severity_override
          # parsed[2].vulnerabilities[2].severity_override
    /\ parsed[2].stig_info.title = <<"a", " ", "b", "title", "a", " ", "b">>
    /\ PairValues(xml, "STIGRef") =
          [k \in 1..2 |->
              <<"a", " ", "b", "title", "a", " ", "b", " ", "::", " ",
                "a", " ", "b", "release_info", "a", " ", "b">>]

\* The texts of a checklist that the serializer hands to escape_xml.
FieldTexts(checklist) ==
    {checklist.asset[f] : f \in (DOMAIN checklist.asset) \ {"web_or_database"}}
    \cup {checklist.stig_info[f] : f \in DOMAIN checklist.stig_info}
    \cup UNION {
           LET vuln == checklist.vulnerabilities[i]
           IN {vuln.vuln_num, vuln.severity, vuln.group_title, vuln.rule_id,
               vuln.rule_ver, vuln.rule_title, vuln.vuln_discuss,
               vuln.check_content, vuln.fix_text, vuln.status,
               vuln.finding_details, vuln.comments,
               UnwrapOrEmpty(vuln.severity_override),
               UnwrapOrEmpty(vuln.severity_justification)}
              \cup Range(vuln.cci_refs) :
           i \in DOMAIN checklist.vulnerabilities}

MarkupChars == {"&", "<", ">", "\"", "'"}

\* Character data without a raw <, >, quotation mark or apostrophe, in
\* which every ampersand starts one of the five entities.
IsEscaped(raw) ==
    \A i \in DOMAIN raw :
        /\ raw[i] \notin MarkupChars \ {"&"}
        /\ raw[i] = "&" => (i < Len(raw) /\ raw[i + 1] \in EntityNames)

\* C27: all character data of the written text is entity-escaped, and for
\* every text handed to escape_xml the escaped text holds no raw markup
\* character, one entity for each markup character of the text and no
\* other ampersand, and unescapes to the text.
C27_EntityEscaped ==
    Exported =>
        /\ \A i \in DOMAIN xml : xml[i].kind = "text" => IsEscaped(xml[i].raw)
        /\ \A text \in FieldTexts(parsed[2]) :
              LET escaped == escape_xml(text)
              IN /\ Contains(xml, Chars(escaped))
                 /\ IsEscaped(escaped)
                 /\ Cardinality({i \in DOMAIN escaped : escaped[i] = "&"})
                       = Cardinality({i \in DOMAIN text :
                                         text[i] \in MarkupChars})
                 /\ UnescapeOrDefault(escaped) = text

\* A checklist whose fields hold text that reads like an entity: the
\* ampersand of "&amp;" is escaped, once.
C27_Witness ==
    /\ pc = "codec_exported"
    /\ parsed[2].asset.role = <<"&", "amp;", "role", "&", "amp;">>
    /\ Contains(xml, Chars(<<"&", "amp;", "amp;", "role", "&", "amp;",
                             "amp;">>))

\* Position i of a catalog tag stream holds a cross-reference entry of the
\* form given ("empty": self-closing, "start": start tag and end tag) that
\* lies inside a references block, names NIST SP 800-53 in its title and
\* carries an index.
IsNistEntry(events, i, form) ==
    /\ IsTag(events[i], form, "reference")
    /\ InReferences(events, i)
    /\ MentionsNist(AttrValue(events[i].attrs, "title"))
    /\ Trim(AttrValue(events[i].attrs, "index")) # <<>>

EntriesInspected(form) ==
    (CatalogParsed /\ IsOk(cci_list)) =>
        LET events == ReadEvents(cci_document)
            kept == ItemsWithId(events)
        IN \A k \in DOMAIN kept :
              \A i \in kept[k][1]..kept[k][2] :
                  IsNistEntry(events, i, form) =>
                      Contains(cci_list[2][k].nist_controls,
                               Trim(AttrValue(events[i].attrs, "index")))

\* C21: a cross-reference entry with a title that contains "NIST SP 800-53"
\* and an index adds its index to the NIST controls of the record of its
\* item, whether it is written self-closing or as a start tag followed by
\* an end tag.
C21_BothFormsInspected == EntriesInspected("empty") /\ EntriesInspected("start")

====
